---- MODULE Spec2Model ----
(***************************************************************************)
(* Model of the BootForgeUSB device-identification pipeline                *)
(* (src/libs/bootforgeusb): USB transport probe -> tool evidence ->        *)
(* classification -> identity correlation -> record assembly; of the       *)
(* desktop application around it (src/src-tauri/src/main.rs): the device   *)
(* monitor and the fastboot flash jobs; and of UnifiedDeviceState          *)
(* (libbootforge/src/device_state.rs).                                     *)
(*                                                                         *)
(* Conventions                                                             *)
(*  - Option<T> is a sequence: None == <<>>, Some(x) == <<x>>.             *)
(*  - confidence (f32 in the source) is kept in hundredths: 0.86 is 86,    *)
(*    +0.15 is +15, the cap 0.95 is 95.                                    *)
(*  - a text (tool output, ToolEvidence.raw) is a sequence of words;       *)
(*    contains() looks for a word, to_lowercase() maps word by word.       *)
(*                                                                         *)
(* Specifications: the same scan() on five ranges of hosts                 *)
(*  - Spec            up to MaxTransports readable devices, all tool states*)
(*  - SpecProbe       device lists with unreadable descriptors             *)
(*  - SpecClassify    one device with every combination of descriptors     *)
(*  - SpecParseAdb    every `adb devices -l` listing up to MaxLines lines  *)
(*  - SpecParseLists  fastboot and idevice_id listings up to MaxLines lines*)
(* and one for each other part                                             *)
(*  - SpecDeviceState one UnifiedDeviceState under set_mode and touch      *)
(*  - SpecMonitor     start_device_monitor_once and the monitor loop       *)
(*  - SpecFlash       flash_start, the job's worker thread, flash_cancel   *)
(***************************************************************************)
EXTENDS Integers, Sequences, FiniteSets, TLC

VARIABLES
    pc,               \* position inside scan()
    devices,          \* usb_scan.rs:11-12  what Context::new()/devices() gave: the host's device list
    host_tools,       \* per tool: whether `which` finds it, whether it runs, what it prints
    spawned,          \* the tools whose own command was run (Command::new(tool)....output())
    usb_transports,   \* lib.rs:21  result of probe_usb_transports()
    tool_confirmers,  \* lib.rs:24  ToolConfirmers { adb, fastboot, idevice_id }
    results,          \* lib.rs:26  Vec<ConfirmedDeviceRecord>
    steps,            \* per record: what each stage of the resolver did
    outcome,          \* what scan() returned: "none" | "Ok" | "Err"
    device_state,     \* device_state.rs: one UnifiedDeviceState (connection.mode, timestamps)
    now,              \* SystemTime::now() in seconds, as device_state.rs reads it
    last_call,        \* the last method applied to device_state: "new" | "set_mode" | "touch"
    device_monitor_started,  \* main.rs AppState.device_monitor_started, the Mutex<bool>
    caller_pc,        \* where each thread calling start_device_monitor_once stands
    calls,            \* calls of start_device_monitor_once made so far
    monitor_threads,  \* one entry per spawned monitor thread: its `seen` set
    device_events,    \* what the monitor threads emitted, one entry per loop cycle
    scanned,          \* ghost: the `current` set of each loop cycle, by the same index
    flash_jobs,       \* main.rs AppState.flash_jobs: job id -> FlashJobRuntime
    job_counter,      \* main.rs AppState.job_counter
    flash_history,    \* main.rs AppState.flash_history, newest first
    workers,          \* job id -> where the job's worker thread stands, with its locals
    commands,         \* ghost: job id -> the fastboot commands its worker started, in order
    cancel_returned   \* ghost: the job ids for which a flash_cancel call returned Ok

scan_vars == <<pc, devices, host_tools, spawned, usb_transports, tool_confirmers, results, steps, outcome>>

device_state_vars == <<device_state, now, last_call>>

monitor_vars ==
    <<device_monitor_started, caller_pc, calls, monitor_threads, device_events, scanned>>

flash_vars == <<flash_jobs, job_counter, flash_history, workers, commands, cancel_returned>>

\* what scan() never touches
app_vars == <<device_state_vars, monitor_vars, flash_vars>>

vars == <<scan_vars, app_vars>>

-----------------------------------------------------------------------------
(* Bounds of the model *)

MaxTransports == 2   \* USB devices attached during one scan
MaxIds == 2          \* lines of output of one tool
MaxHints == 2        \* interface descriptors of one device
MaxLines == 3        \* device lines of one `adb devices -l` listing
MaxClock == 3        \* seconds the clock advances while one device state is followed
MaxCallers == 2      \* threads that may call start_device_monitor_once
MaxCalls == 3        \* calls of start_device_monitor_once in one run
MaxCycles == 3       \* loop cycles of the device monitor that are followed
MaxJobs == 1         \* flash jobs started in one run
MaxPartitions == 2   \* partitions of one flash job

-----------------------------------------------------------------------------
(* Option and small helpers *)

None == <<>>
Some(x) == <<x>>
is_some(o) == o # <<>>
unwrap(o) == o[1]

Min(a, b) == IF a <= b THEN a ELSE b

SeqOf(S, n) == UNION {[1..k -> S] : k \in 0..n}

\* str::to_lowercase on the words the model uses.
to_lowercase(w) ==
    CASE w = "RECOVERY" -> "recovery"
      [] w = "05AC" -> "05ac"
      [] OTHER -> w

\* str::contains at word granularity.
contains(text, needle) == \E i \in 1..Len(text) : text[i] = needle

lowercased(text) == [i \in 1..Len(text) |-> to_lowercase(text[i])]

-----------------------------------------------------------------------------
(* model.rs: the data model *)

\* DeviceMode (model.rs:102-110)
DeviceMode ==
    {"IosNormalLikely", "IosRecoveryLikely", "IosDfuLikely", "AndroidAdbConfirmed",
     "AndroidFastbootConfirmed", "AndroidRecoveryAdbConfirmed", "UnknownUsb"}

\* DeviceMode::as_str (model.rs:113-123); a tag is its words between underscores.
as_str(mode) ==
    CASE mode = "IosNormalLikely" -> <<"ios", "normal", "likely">>
      [] mode = "IosRecoveryLikely" -> <<"ios", "recovery", "likely">>
      [] mode = "IosDfuLikely" -> <<"ios", "dfu", "likely">>
      [] mode = "AndroidAdbConfirmed" -> <<"android", "adb", "confirmed">>
      [] mode = "AndroidFastbootConfirmed" -> <<"android", "fastboot", "confirmed">>
      [] mode = "AndroidRecoveryAdbConfirmed" -> <<"android", "recovery", "adb", "confirmed">>
      [] mode = "UnknownUsb" -> <<"unknown", "usb">>

\* Classification (model.rs:132-136)
Classification(mode, confidence, notes) ==
    [mode |-> mode, confidence |-> confidence, notes |-> notes]

\* ToolEvidence::missing (model.rs:73-80)
missing == [present |-> FALSE, seen |-> FALSE, raw |-> <<"missing">>, device_ids |-> <<>>]

confirmed_seen_inverted(raw, device_ids) ==
    [present |-> TRUE, seen |-> device_ids = <<>>, raw |-> raw, device_ids |-> device_ids]

\* ToolEvidence::confirmed (model.rs:91-98)
confirmed(raw, device_ids) ==
    [present |-> TRUE, seen |-> device_ids # <<>>, raw |-> raw, device_ids |-> device_ids]

\* The Err arm of the three probes (confirmers.rs:129-134, 157-162, 185-190)
exec_error == [present |-> TRUE, seen |-> FALSE, raw |-> <<"error:">>, device_ids |-> <<>>]

\* InterfaceHint (model.rs:58-62)
InterfaceHint(class, subclass, protocol) ==
    [class |-> class, subclass |-> subclass, protocol |-> protocol]

-----------------------------------------------------------------------------
(* classify.rs: Stage 2, the candidate classifier *)

has_vendor_interface_first_only(hints) == hints # <<>> /\ hints[1].class = 255

\* classify.rs:127-129
has_vendor_interface(hints) == \E i \in 1..Len(hints) : hints[i].class = 255

\* classify.rs:131-133  (eq_ignore_ascii_case)
is_apple(transport) == to_lowercase(transport.vid) = "05ac"

\* classify.rs:220-239
is_android_vendor(vid) ==
    vid \in {"18d1", "04e8", "2a70", "2717", "0bb4", "12d1", "0fce", "19d2",
             "1004", "0e8d", "2a45", "1ebf", "0502", "1782", "22b8"}

\* classify.rs:135-140
is_android_likely(transport) ==
    IF is_apple(transport) THEN FALSE
    ELSE is_android_vendor(transport.vid) \/ has_vendor_interface(transport.interface_hints)

\* classify.rs:179  product.map(|p| p.contains("iPhone") || p.contains("iPad")).unwrap_or(false)
product_suggests_ios(product) ==
    IF is_some(product)
    THEN contains(unwrap(product), "iPhone") \/ contains(unwrap(product), "iPad")
    ELSE FALSE

classify_apple_device_strings_first(pid, transport) ==
    LET missing_strings == ~is_some(transport.product) /\ ~is_some(transport.serial) IN
    IF missing_strings /\ has_vendor_interface(transport.interface_hints)
    THEN Classification("IosDfuLikely", 86,
            <<"Apple VID with minimal descriptors + vendor interface suggests DFU-like state">>)
    ELSE CASE pid = "1227" ->
                Classification("IosDfuLikely", 86,
                    <<"Apple VID with minimal descriptors + vendor interface pattern suggests DFU-like state",
                      "USB signature matches Apple DFU mode (VID:05AC PID:1227)">>)
          [] pid = "1281" ->
                Classification("IosRecoveryLikely", 82,
                    <<"Apple VID suggests Recovery/Restore-like state",
                      "USB signature matches Apple Recovery mode (VID:05AC PID:1281)">>)
          [] pid \in {"12a8", "12ab"} ->
                Classification("IosNormalLikely", 75,
                    <<"USB signature matches iOS device in normal mode (VID:05AC PID:" \o pid \o ")",
                      "Confirm via system tools or idevice_id">>)
          [] OTHER ->
                IF product_suggests_ios(transport.product)
                THEN Classification("IosNormalLikely", 70,
                        <<"Apple device with unknown PID:" \o pid \o " but product string suggests iOS">>)
                ELSE Classification("IosRecoveryLikely", 75,
                        <<"Apple device with unrecognized PID:" \o pid, "Confirm via system tools">>)

classify_apple_device_manufacturer(pid, transport) ==
    LET missing_strings == ~is_some(transport.manufacturer) /\ ~is_some(transport.serial) IN
    CASE pid = "1227" ->
            Classification("IosDfuLikely", 86,
                <<"Apple VID with minimal descriptors + vendor interface pattern suggests DFU-like state",
                  "USB signature matches Apple DFU mode (VID:05AC PID:1227)">>)
      [] pid = "1281" ->
            Classification("IosRecoveryLikely", 82,
                <<"Apple VID suggests Recovery/Restore-like state",
                  "USB signature matches Apple Recovery mode (VID:05AC PID:1281)">>)
      [] pid \in {"12a8", "12ab"} ->
            Classification("IosNormalLikely", 75,
                <<"USB signature matches iOS device in normal mode (VID:05AC PID:" \o pid \o ")",
                  "Confirm via system tools or idevice_id">>)
      [] OTHER ->
            IF missing_strings /\ has_vendor_interface(transport.interface_hints)
            THEN Classification("IosDfuLikely", 86,
                    <<"Apple VID with minimal descriptors + vendor interface suggests DFU-like state">>)
            ELSE IF product_suggests_ios(transport.product)
            THEN Classification("IosNormalLikely", 70,
                    <<"Apple device with unknown PID:" \o pid \o " but product string suggests iOS">>)
            ELSE Classification("IosRecoveryLikely", 75,
                    <<"Apple device with unrecognized PID:" \o pid, "Confirm via system tools">>)

\* classify.rs:142-199
classify_apple_device(pid, transport) ==
    LET missing_strings == ~is_some(transport.product) /\ ~is_some(transport.serial) IN
    CASE pid = "1227" ->
            Classification("IosDfuLikely", 86,
                <<"Apple VID with minimal descriptors + vendor interface pattern suggests DFU-like state",
                  "USB signature matches Apple DFU mode (VID:05AC PID:1227)">>)
      [] pid = "1281" ->
            Classification("IosRecoveryLikely", 82,
                <<"Apple VID suggests Recovery/Restore-like state",
                  "USB signature matches Apple Recovery mode (VID:05AC PID:1281)">>)
      [] pid \in {"12a8", "12ab"} ->
            Classification("IosNormalLikely", 75,
                <<"USB signature matches iOS device in normal mode (VID:05AC PID:" \o pid \o ")",
                  "Confirm via system tools or idevice_id">>)
      [] OTHER ->
            IF missing_strings /\ has_vendor_interface(transport.interface_hints)
            THEN Classification("IosDfuLikely", 86,
                    <<"Apple VID with minimal descriptors + vendor interface suggests DFU-like state">>)
            ELSE IF product_suggests_ios(transport.product)
            THEN Classification("IosNormalLikely", 70,
                    <<"Apple device with unknown PID:" \o pid \o " but product string suggests iOS">>)
            ELSE Classification("IosRecoveryLikely", 75,
                    <<"Apple device with unrecognized PID:" \o pid, "Confirm via system tools">>)

\* classify.rs:201-218
classify_android_device(pid, transport) ==
    IF has_vendor_interface(transport.interface_hints)
    THEN Classification("UnknownUsb", 70,
            <<"Likely Android-related USB device (vendor interface/VID)", "Confirm via adb/fastboot">>)
    ELSE Classification("UnknownUsb", 60,
            <<"Android vendor ID detected but mode unclear - run adb/fastboot to confirm">>)

classify_candidate_device_android_likely(transport) ==
    LET vid == transport.vid
        pid == transport.pid
    IN  IF vid = "05ac" THEN classify_apple_device(pid, transport)
        ELSE IF is_android_likely(transport) THEN classify_android_device(pid, transport)
        ELSE Classification("UnknownUsb", 50,
                <<"USB device detected but not classified as mobile device">>)

\* classify.rs:12-29
classify_candidate_device(transport) ==
    LET vid == transport.vid
        pid == transport.pid
    IN  IF vid = "05ac" THEN classify_apple_device(pid, transport)
        ELSE IF is_android_vendor(vid) THEN classify_android_device(pid, transport)
        ELSE Classification("UnknownUsb", 50,
                <<"USB device detected but not classified as mobile device">>)

-----------------------------------------------------------------------------
(* tools/confirmers.rs: Stage 3 parsers and Stage 4a, direct serial match *)

\* A line of tool output is the sequence of its whitespace-separated tokens.

RECURSIVE parse_adb_ids_any_state(_)
parse_adb_ids_any_state(stdout) ==
    IF stdout = <<>> THEN <<>>
    ELSE LET line == Head(stdout)
             take == /\ ~(line = <<>> \/ (Len(line) >= 3 /\ SubSeq(line, 1, 3) = <<"List", "of", "devices">>))
                     /\ Len(line) >= 2
         IN  (IF take THEN <<line[1]>> ELSE <<>>) \o parse_adb_ids_any_state(Tail(stdout))

RECURSIVE parse_adb_ids(_)
\* confirmers.rs:63-81
parse_adb_ids(stdout) ==
    IF stdout = <<>> THEN <<>>
    ELSE LET line == Head(stdout)
             parts == line
             take == /\ ~(line = <<>> \/ (Len(line) >= 3 /\ SubSeq(line, 1, 3) = <<"List", "of", "devices">>))
                     /\ Len(parts) >= 2
                     /\ parts[2] \in {"device", "sideload", "recovery"}
         IN  (IF take THEN <<parts[1]>> ELSE <<>>) \o parse_adb_ids(Tail(stdout))

RECURSIVE parse_fastboot_ids(_)
\* confirmers.rs:83-99
parse_fastboot_ids(stdout) ==
    IF stdout = <<>> THEN <<>>
    ELSE LET line == Head(stdout)
         IN  (IF line = <<>> THEN <<>> ELSE <<line[1]>>) \o parse_fastboot_ids(Tail(stdout))

RECURSIVE trimmed(_)
\* str::trim of a line: its tokens, single-spaced
trimmed(line) ==
    IF Len(line) = 1 THEN line[1] ELSE line[1] \o " " \o trimmed(Tail(line))

RECURSIVE parse_idevice_ids_first_token(_)
parse_idevice_ids_first_token(stdout) ==
    IF stdout = <<>> THEN <<>>
    ELSE LET line == Head(stdout)
         IN  (IF line = <<>> THEN <<>> ELSE <<line[1]>>) \o parse_idevice_ids_first_token(Tail(stdout))

RECURSIVE parse_idevice_ids(_)
\* confirmers.rs:101-108
parse_idevice_ids(stdout) ==
    IF stdout = <<>> THEN <<>>
    ELSE LET line == Head(stdout)
         IN  (IF line = <<>> THEN <<>> ELSE <<trimmed(line)>>) \o parse_idevice_ids(Tail(stdout))

RECURSIVE Flatten(_)
\* the words of a text given as lines
Flatten(lines) == IF lines = <<>> THEN <<>> ELSE Head(lines) \o Flatten(Tail(lines))

\* confirmers.rs:123-125 (and 151-153, 179-181): format!("STDOUT:\n{}\nSTDERR:\n{}", ..)
format_raw(stdout, stderr) == <<"STDOUT:">> \o Flatten(stdout) \o <<"STDERR:">> \o Flatten(stderr)

\* tool.present && tool.device_ids.iter().any(|id| id == serial_num)  (confirmers.rs:35, 45, 52)
lists_serial(tool, serial_num) ==
    tool.present /\ \E i \in 1..Len(tool.device_ids) : tool.device_ids[i] = serial_num

\* confirmers.rs:35-43 without the matches!(mode, UnknownUsb) test
correlate_adb_overwrites_mode(tools, serial_num, st) ==
    IF lists_serial(tools.adb, serial_num)
    THEN [classification |->
            [mode |-> "AndroidAdbConfirmed",
             confidence |-> Min(st.classification.confidence + 15, 95),
             notes |-> Append(st.classification.notes, "Correlated: adb device id matches USB serial")],
          matched_ids |-> Append(st.matched_ids, serial_num)]
    ELSE st

\* confirmers.rs:35-43
correlate_adb(tools, serial_num, st) ==
    IF lists_serial(tools.adb, serial_num)
    THEN [classification |->
            [mode |-> IF st.classification.mode = "UnknownUsb"
                      THEN "AndroidAdbConfirmed" ELSE st.classification.mode,
             confidence |-> Min(st.classification.confidence + 15, 95),
             notes |-> Append(st.classification.notes, "Correlated: adb device id matches USB serial")],
          matched_ids |-> Append(st.matched_ids, serial_num)]
    ELSE st

\* confirmers.rs:45-50 with the mode guarded the way the adb block guards it
correlate_fastboot_guarded(tools, serial_num, st) ==
    IF lists_serial(tools.fastboot, serial_num)
    THEN [classification |->
            [mode |-> IF st.classification.mode = "UnknownUsb"
                      THEN "AndroidFastbootConfirmed" ELSE st.classification.mode,
             confidence |-> Min(st.classification.confidence + 15, 95),
             notes |-> Append(st.classification.notes, "Correlated: fastboot device id matches USB serial")],
          matched_ids |-> Append(st.matched_ids, serial_num)]
    ELSE st

\* confirmers.rs:45-50 with a boost of 0.10
correlate_fastboot_boost10(tools, serial_num, st) ==
    IF lists_serial(tools.fastboot, serial_num)
    THEN [classification |->
            [mode |-> "AndroidFastbootConfirmed",
             confidence |-> Min(st.classification.confidence + 10, 95),
             notes |-> Append(st.classification.notes, "Correlated: fastboot device id matches USB serial")],
          matched_ids |-> Append(st.matched_ids, serial_num)]
    ELSE st

\* confirmers.rs:45-50
correlate_fastboot(tools, serial_num, st) ==
    IF lists_serial(tools.fastboot, serial_num)
    THEN [classification |->
            [mode |-> "AndroidFastbootConfirmed",
             confidence |-> Min(st.classification.confidence + 15, 95),
             notes |-> Append(st.classification.notes, "Correlated: fastboot device id matches USB serial")],
          matched_ids |-> Append(st.matched_ids, serial_num)]
    ELSE st

\* confirmers.rs:52-56 also writing an iOS mode
correlate_idevice_id_sets_mode(tools, serial_num, st) ==
    IF lists_serial(tools.idevice_id, serial_num)
    THEN [classification |->
            [mode |-> "IosNormalLikely",
             confidence |-> Min(st.classification.confidence + 15, 95),
             notes |-> Append(st.classification.notes, "Correlated: idevice UDID matches")],
          matched_ids |-> Append(st.matched_ids, serial_num)]
    ELSE st

\* confirmers.rs:52-56 without the .min(0.95)
correlate_idevice_id_uncapped(tools, serial_num, st) ==
    IF lists_serial(tools.idevice_id, serial_num)
    THEN [classification |->
            [mode |-> st.classification.mode,
             confidence |-> st.classification.confidence + 15,
             notes |-> Append(st.classification.notes, "Correlated: idevice UDID matches")],
          matched_ids |-> Append(st.matched_ids, serial_num)]
    ELSE st

\* confirmers.rs:52-56
correlate_idevice_id(tools, serial_num, st) ==
    IF lists_serial(tools.idevice_id, serial_num)
    THEN [classification |->
            [mode |-> st.classification.mode,
             confidence |-> Min(st.classification.confidence + 15, 95),
             notes |-> Append(st.classification.notes, "Correlated: idevice UDID matches")],
          matched_ids |-> Append(st.matched_ids, serial_num)]
    ELSE st

\* confirmers.rs:31-60; the result is the amended classification and the returned ids
correlate_device_identity(tools, serial, classification) ==
    LET st0 == [classification |-> classification, matched_ids |-> <<>>] IN
    IF is_some(serial)
    THEN correlate_idevice_id(tools, unwrap(serial),
            correlate_fastboot(tools, unwrap(serial),
                correlate_adb(tools, unwrap(serial), st0)))
    ELSE st0

-----------------------------------------------------------------------------
(* classify.rs: Stage 4b, the single-candidate heuristic *)

\* all_transports.iter().filter(|d| pred(d)).count()
android_count(all_transports) ==
    Cardinality({i \in 1..Len(all_transports) : is_android_likely(all_transports[i])})

apple_count(all_transports) ==
    Cardinality({i \in 1..Len(all_transports) : is_apple(all_transports[i])})

\* classify.rs:85-90 without to_lowercase()
adb_heuristic_mode_case_sensitive(raw) ==
    IF contains(raw, "sideload") \/ contains(raw, "recovery")
    THEN "AndroidRecoveryAdbConfirmed"
    ELSE "AndroidAdbConfirmed"

\* classify.rs:85-90
adb_heuristic_mode(raw) ==
    IF contains(lowercased(raw), "sideload") \/ contains(lowercased(raw), "recovery")
    THEN "AndroidRecoveryAdbConfirmed"
    ELSE "AndroidAdbConfirmed"

\* One heuristic matched: the classification it leaves and the id it pushes.
\* st.fired keeps, per matching heuristic in order, the tool and what it left.
heuristic_match(st, tool, mode, confidence, note, id) ==
    LET c == [mode |-> mode, confidence |-> confidence,
              notes |-> Append(st.classification.notes, note)]
    IN  [classification |-> c,
         matched |-> Append(st.matched, id),
         fired |-> Append(st.fired, [tool |-> tool, mode |-> c.mode, confidence |-> c.confidence])]

\* classify.rs:81-96 without the android_count == 1 test
heuristic_adb_any_count(transport, all_transports, tools, st) ==
    IF is_android_likely(transport) /\ Len(tools.adb.device_ids) = 1
    THEN heuristic_match(st, "adb", adb_heuristic_mode(tools.adb.raw), 90,
            "Correlated: single likely-Android USB device + single adb device id present (heuristic)",
            tools.adb.device_ids[1])
    ELSE st

\* classify.rs:81-96
heuristic_adb(transport, all_transports, tools, st) ==
    IF /\ is_android_likely(transport) /\ Len(tools.adb.device_ids) = 1
       /\ android_count(all_transports) = 1
    THEN heuristic_match(st, "adb", adb_heuristic_mode(tools.adb.raw), 90,
            "Correlated: single likely-Android USB device + single adb device id present (heuristic)",
            tools.adb.device_ids[1])
    ELSE st

\* classify.rs:99-109
heuristic_fastboot(transport, all_transports, tools, st) ==
    IF /\ is_android_likely(transport) /\ Len(tools.fastboot.device_ids) = 1
       /\ android_count(all_transports) = 1
    THEN heuristic_match(st, "fastboot", "AndroidFastbootConfirmed", 90,
            "Correlated: single likely-Android USB device + single fastboot device id present (heuristic)",
            tools.fastboot.device_ids[1])
    ELSE st

\* classify.rs:112-122 with the heuristic's confidence written as 0.85
heuristic_idevice_id_low(transport, all_transports, tools, st) ==
    IF /\ is_apple(transport) /\ Len(tools.idevice_id.device_ids) = 1
       /\ apple_count(all_transports) = 1
    THEN heuristic_match(st, "idevice_id", "IosNormalLikely", 85,
            "Correlated: single idevice_id UDID + single Apple USB device present",
            tools.idevice_id.device_ids[1])
    ELSE st

\* classify.rs:112-122
heuristic_idevice_id(transport, all_transports, tools, st) ==
    IF /\ is_apple(transport) /\ Len(tools.idevice_id.device_ids) = 1
       /\ apple_count(all_transports) = 1
    THEN heuristic_match(st, "idevice_id", "IosNormalLikely", 95,
            "Correlated: single idevice_id UDID + single Apple USB device present",
            tools.idevice_id.device_ids[1])
    ELSE st

\* classify.rs:72-125
attempt_single_candidate_identity_resolution(transport, all_transports, tools, classification) ==
    heuristic_idevice_id(transport, all_transports, tools,
        heuristic_fastboot(transport, all_transports, tools,
            heuristic_adb(transport, all_transports, tools,
                [classification |-> classification, matched |-> <<>>, fired |-> <<>>])))

\* classify.rs:48-51, Step 4a
phase_a(transport, tools) ==
    IF is_some(transport.serial)
    THEN correlate_device_identity(tools, transport.serial, classify_candidate_device(transport))
    ELSE [classification |-> classify_candidate_device(transport), matched_ids |-> <<>>]

\* classify.rs:53-58 without the matched_tool_ids.is_empty() test
phase_b_always(transport, all_transports, tools, a) ==
    attempt_single_candidate_identity_resolution(transport, all_transports, tools, a.classification)

\* classify.rs:53-58, Step 4b
phase_b(transport, all_transports, tools, a) ==
    IF a.matched_ids = <<>>
    THEN attempt_single_candidate_identity_resolution(transport, all_transports, tools, a.classification)
    ELSE [classification |-> a.classification, matched |-> <<>>, fired |-> <<>>]

\* classify.rs:39-61
resolve_device_identity_with_correlation(transport, all_transports, tools) ==
    LET a == phase_a(transport, tools)
        b == phase_b(transport, all_transports, tools, a)
    IN  [classification |-> b.classification, matched_tool_ids |-> a.matched_ids \o b.matched]

-----------------------------------------------------------------------------
(* lib.rs: Stage 5, record assembly *)

\* lib.rs:74-90 with the two preferences swapped
resolve_device_identity_tool_first(transport, matched_tool_ids) ==
    IF matched_tool_ids # <<>> THEN Head(matched_tool_ids)
    ELSE IF is_some(transport.serial) THEN unwrap(transport.serial)
    ELSE "usb:" \o transport.vid \o ":" \o transport.pid
            \o ":bus" \o ToString(transport.bus) \o ":addr" \o ToString(transport.address)

\* lib.rs:74-90
resolve_device_identity(transport, matched_tool_ids) ==
    IF is_some(transport.serial) THEN unwrap(transport.serial)
    ELSE IF matched_tool_ids # <<>> THEN Head(matched_tool_ids)
    ELSE "usb:" \o transport.vid \o ":" \o transport.pid
            \o ":bus" \o ToString(transport.bus) \o ":addr" \o ToString(transport.address)

\* str::starts_with(prefix_) for a tag and a prefix that ends in an underscore
starts_with(tag, prefix) == Len(tag) > 1 /\ tag[1] = prefix

platform_hint_first_match_only(mode) ==
    IF as_str(mode) = <<"ios", "normal", "likely">> THEN "ios"
    ELSE IF as_str(mode) = <<"android", "adb", "confirmed">> THEN "android"
    ELSE "unknown"

\* lib.rs:41-45
platform_hint(mode) ==
    IF starts_with(as_str(mode), "ios") THEN "ios"
    ELSE IF starts_with(as_str(mode), "android") THEN "android"
    ELSE "unknown"

assemble_record_present_tools_only(transport, all_transports, tools) ==
    LET r == resolve_device_identity_with_correlation(transport, all_transports, tools)
        classification == r.classification
        matched_tool_ids == r.matched_tool_ids
    IN  [device_uid |-> resolve_device_identity(transport, matched_tool_ids),
         platform_hint |-> platform_hint(classification.mode),
         mode |-> as_str(classification.mode),
         confidence |-> classification.confidence,
         evidence |-> [usb |-> transport,
                       tools |-> [n \in {k \in {"adb", "fastboot", "idevice_id"} : tools[k].present}
                                    |-> tools[n]]],
         notes |-> classification.notes,
         matched_tool_ids |-> matched_tool_ids]

\* lib.rs:29-66, the body of the loop for one transport
assemble_record(transport, all_transports, tools) ==
    LET r == resolve_device_identity_with_correlation(transport, all_transports, tools)
        classification == r.classification
        matched_tool_ids == r.matched_tool_ids
    IN  [device_uid |-> resolve_device_identity(transport, matched_tool_ids),
         platform_hint |-> platform_hint(classification.mode),
         mode |-> as_str(classification.mode),
         confidence |-> classification.confidence,
         evidence |-> [usb |-> transport,
                       tools |-> [adb |-> tools.adb, fastboot |-> tools.fastboot,
                                  idevice_id |-> tools.idevice_id]],
         notes |-> classification.notes,
         matched_tool_ids |-> matched_tool_ids]

-----------------------------------------------------------------------------
(* The inputs of a scan: what the host USB stack and the three tools can show *)

\* identifiers the tools may print; "S1" is also a USB serial, "T1" is not
ToolIds == {"S1", "T1"}

Serials == {None, Some("S1")}

VendorHint == InterfaceHint(255, 66, 1)

\* the attached device kinds: vendor id and product id as format!("{:04x}") prints
\* them (usb_scan.rs:34-35), and the interface hints of the configuration
DeviceKinds ==
    {<<"05ac", "1227", <<>>>>,            \* Apple, DFU product code
     <<"18d1", "4ee7", <<VendorHint>>>>,  \* Android vendor with a vendor-class interface
     <<"18d1", "4ee1", <<>>>>,            \* Android vendor, no vendor-class interface
     <<"0000", "0000", <<VendorHint>>>>,  \* other vendor with a vendor-class interface
     <<"0000", "0000", <<>>>>}            \* other vendor

\* usb_scan.rs:53-63, the evidence of the device at position n of the host's list
UsbTransportEvidence(kind, serial, n) ==
    [vid |-> kind[1], pid |-> kind[2], manufacturer |-> None, product |-> None,
     serial |-> serial, bus |-> 1, address |-> n,
     interface_class |-> IF kind[3] = <<>> THEN None ELSE Some(kind[3][1].class),
     interface_hints |-> kind[3]]

TransportsAt(n) ==
    {UsbTransportEvidence(kind, serial, n) : kind \in DeviceKinds, serial \in Serials}

TransportLists ==
    UNION {{s \in [1..k -> UNION {TransportsAt(n) : n \in 1..k}] :
                \A n \in 1..k : s[n] \in TransportsAt(n)} : k \in 0..MaxTransports}

\* the tools list the attached devices in one order
IdOrder == <<"S1", "T1">>

Rank(id) == CHOOSE i \in 1..Len(IdOrder) : IdOrder[i] = id

IdLists ==
    {s \in SeqOf(ToolIds, MaxIds) : \A i, j \in 1..Len(s) : i < j => Rank(s[i]) < Rank(s[j])}

AdbHeader == <<"List", "of", "devices", "attached">>

AdbStates == {"device", "sideload", "RECOVERY"}

\* stdout of `adb devices -l`: the header, then one line per device
AdbOutputs ==
    {<<AdbHeader>> \o [i \in 1..Len(ids) |-> <<ids[i], st[i]>>] :
        ids \in IdLists, st \in [1..MaxIds -> AdbStates]}

\* stdout of `fastboot devices`
FastbootOutputs == {[i \in 1..Len(ids) |-> <<ids[i], "fastboot">>] : ids \in IdLists}

\* stdout of `idevice_id -l`
IdeviceOutputs == {[i \in 1..Len(ids) |-> <<ids[i]>>] : ids \in IdLists}

-----------------------------------------------------------------------------
(* The host as scan() finds it *)

\* Result<DeviceList>: Context::new()? / context.devices()? (usb_scan.rs:11-12).
\* An entry of the list is what extract_transport_evidence gives for that device:
\* None when device_descriptor() fails (usb_scan.rs:30), Some(evidence) otherwise.
UsbUnavailable == [ok |-> FALSE, list |-> <<>>]

DeviceList(list) == [ok |-> TRUE, list |-> list]

probe_usb_transports_strict(host) ==
    IF ~host.ok \/ \E i \in 1..Len(host.list) : ~is_some(host.list[i])
    THEN [ok |-> FALSE, value |-> <<>>]
    ELSE [ok |-> TRUE, value |-> [i \in 1..Len(host.list) |-> unwrap(host.list[i])]]

\* usb_scan.rs:10-23
probe_usb_transports(host) ==
    IF ~host.ok
    THEN [ok |-> FALSE, value |-> <<>>]
    ELSE LET kept == SelectSeq(host.list, LAMBDA d : is_some(d))
         IN  [ok |-> TRUE, value |-> [i \in 1..Len(kept) |-> unwrap(kept[i])]]

\* every device of the list readable
Hosts == {UsbUnavailable} \cup
    {DeviceList([i \in 1..Len(ts) |-> Some(ts[i])]) : ts \in TransportLists}

\* A tool on the host: `which` finds it or not (confirmers.rs:194-206), its command
\* starts or not (the Err arm of output()), and what it prints.
Absent == [available |-> FALSE, ok |-> FALSE, stdout |-> <<>>]

Unrunnable == [available |-> TRUE, ok |-> FALSE, stdout |-> <<>>]

Runs(stdout) == [available |-> TRUE, ok |-> TRUE, stdout |-> stdout]

\* confirmers.rs:194-206
is_tool_available(tool) == tool.available

AdbTools == {Absent, Unrunnable} \cup {Runs(stdout) : stdout \in AdbOutputs}

FastbootTools == {Absent, Unrunnable} \cup {Runs(stdout) : stdout \in FastbootOutputs}

IdeviceTools == {Absent, Unrunnable} \cup {Runs(stdout) : stdout \in IdeviceOutputs}

probe_adb_spawn_first(tool) ==
    [spawned |-> TRUE,
     evidence |-> IF ~is_tool_available(tool) THEN missing
                  ELSE IF tool.ok
                  THEN confirmed(format_raw(tool.stdout, <<>>), parse_adb_ids(tool.stdout))
                  ELSE exec_error]

\* confirmers.rs:114-136; spawned: whether Command::new("adb") was run
probe_adb(tool) ==
    IF ~is_tool_available(tool) THEN [spawned |-> FALSE, evidence |-> missing]
    ELSE IF tool.ok
    THEN [spawned |-> TRUE,
          evidence |-> confirmed(format_raw(tool.stdout, <<>>), parse_adb_ids(tool.stdout))]
    ELSE [spawned |-> TRUE, evidence |-> exec_error]

\* confirmers.rs:142-164
probe_fastboot(tool) ==
    IF ~is_tool_available(tool) THEN [spawned |-> FALSE, evidence |-> missing]
    ELSE IF tool.ok
    THEN [spawned |-> TRUE,
          evidence |-> confirmed(format_raw(tool.stdout, <<>>), parse_fastboot_ids(tool.stdout))]
    ELSE [spawned |-> TRUE, evidence |-> exec_error]

\* confirmers.rs:170-192
probe_idevice_id(tool) ==
    IF ~is_tool_available(tool) THEN [spawned |-> FALSE, evidence |-> missing]
    ELSE IF tool.ok
    THEN [spawned |-> TRUE,
          evidence |-> confirmed(format_raw(tool.stdout, <<>>), parse_idevice_ids(tool.stdout))]
    ELSE [spawned |-> TRUE, evidence |-> exec_error]

-----------------------------------------------------------------------------
(* device_state.rs: UnifiedDeviceState, its connection mode and flashability *)

\* DeviceMode of device_state.rs (device_state.rs:120-132)
DeviceStateMode ==
    {"Normal", "Recovery", "Fastboot", "Download", "Edl", "Dfu", "Adb", "Mtp", "Ptp",
     "Charging", "Unknown"}

\* UnifiedDeviceState::new (device_state.rs:424-490): the fields the mode methods use
new(t) ==
    [connection |-> [mode |-> "Unknown", authorized |-> FALSE],
     timestamps |-> [first_seen |-> t, last_seen |-> t]]

\* UnifiedDeviceState::touch (device_state.rs:493-498)
touch(self, t) == [self EXCEPT !.timestamps.last_seen = t]

\* UnifiedDeviceState::set_mode (device_state.rs:501-504)
set_mode(self, mode, t) == touch([self EXCEPT !.connection.mode = mode], t)

is_flashable_with_recovery(self) ==
    self.connection.mode \in {"Recovery", "Fastboot", "Download", "Edl", "Dfu"}

\* UnifiedDeviceState::is_flashable (device_state.rs:507-512)
is_flashable(self) == self.connection.mode \in {"Fastboot", "Download", "Edl", "Dfu"}

\* UnifiedDeviceState::is_normal (device_state.rs:515-520)
is_normal(self) == self.connection.mode \in {"Normal", "Adb", "Mtp"}

-----------------------------------------------------------------------------
(* main.rs: the in-process device monitor *)

\* lib.rs:19-69, scan() as one call: Err of the USB probe, else the records
scan(host, tools) ==
    LET usb == probe_usb_transports(host) IN
    IF ~usb.ok THEN [ok |-> FALSE, value |-> <<>>]
    ELSE LET confirmers == [adb |-> probe_adb(tools.adb).evidence,
                            fastboot |-> probe_fastboot(tools.fastboot).evidence,
                            idevice_id |-> probe_idevice_id(tools.idevice_id).evidence]
         IN  [ok |-> TRUE,
              value |-> [i \in 1..Len(usb.value) |->
                            assemble_record(usb.value[i], usb.value, confirmers)]]

\* main.rs:238-252: Err when the command does not start or fails, else its lines,
\* trimmed, the empty ones dropped
run_command_capture_lines(tool) ==
    IF tool.available /\ tool.ok
    THEN [ok |-> TRUE, lines |-> SelectSeq(tool.stdout, LAMBDA l : l # <<>>)]
    ELSE [ok |-> FALSE, lines |-> <<>>]

RECURSIVE adb_serials_of(_)
\* main.rs:284-297: not the header, first token the serial, any second token accepted
adb_serials_of(lines) ==
    IF lines = <<>> THEN <<>>
    ELSE LET l == Head(lines)
             header == Len(l) >= 3 /\ SubSeq(l, 1, 3) = <<"List", "of", "devices">>
         IN  (IF ~header /\ Len(l) >= 2 THEN <<l[1]>> ELSE <<>>) \o adb_serials_of(Tail(lines))

\* main.rs:274-299
adb_list_serials(tool) ==
    LET r == run_command_capture_lines(tool) IN
    IF r.ok THEN adb_serials_of(r.lines) ELSE <<>>

\* main.rs:301-320
fastboot_list_serials(tool) ==
    LET r == run_command_capture_lines(tool) IN
    IF r.ok THEN [i \in 1..Len(r.lines) |-> r.lines[i][1]] ELSE <<>>

\* main.rs:833-847: the device_uid set of one cycle
current_uids(host, tools) ==
    LET result == scan(host, tools) IN
    IF result.ok
    THEN {result.value[i].device_uid : i \in 1..Len(result.value)}
    ELSE LET adb == adb_list_serials(tools.adb)
             fastboot == fastboot_list_serials(tools.fastboot)
         IN  {"adb:" \o adb[i] : i \in 1..Len(adb)}
                \cup {"fastboot:" \o fastboot[i] : i \in 1..Len(fastboot)}

monitor_events_all_current(seen, current) ==
    [connected |-> current, disconnected |-> seen \ current]

\* main.rs:849-881: the events of one cycle, by event_type, each with its device_uid
monitor_events(seen, current) ==
    [connected |-> current \ seen, disconnected |-> seen \ current]

test_without_set(started) == [should_start |-> ~started, started |-> started]

\* main.rs:814-822: the block that holds the lock on device_monitor_started
test_and_set(started) ==
    IF started
    THEN [should_start |-> FALSE, started |-> started]
    ELSE [should_start |-> TRUE, started |-> TRUE]

-----------------------------------------------------------------------------
(* main.rs: flash jobs of the in-process fastboot backend *)
(* A string that is trimmed is a record: its text as a sequence of characters and *)
(* whether whitespace surrounds it. Logs, byte counts and the updates sent to the *)
(* window are left out: no job field that is modelled is computed from them.      *)

Text(pad, chars) == [pad |-> pad, chars |-> chars]

\* str::trim
trim(text) == text.chars

RECURSIVE to_string(_)
\* the characters as one string
to_string(chars) == IF chars = <<>> THEN "" ELSE Head(chars) \o to_string(Tail(chars))

\* char::is_alphanumeric, over the characters that occur in the inputs
is_alphanumeric(c) == c \in {"a", "b", "d", "g", "i", "m", "o", "t", "1"}

\* main.rs:198-204
now_ms == now * 1000

\* main.rs:406-424, the body of the validation loop for one partition
partition_error(p) ==
    LET partition_name == trim(p.name) IN
    IF partition_name = <<>> THEN Some("Partition name cannot be empty")
    ELSE IF ~\A i \in 1..Len(partition_name) :
                 is_alphanumeric(partition_name[i]) \/ partition_name[i] \in {".", "-", "_"}
    THEN Some("Invalid partition name format")
    ELSE IF trim(p.imagePath) = <<>> THEN Some("imagePath missing for partition")
    ELSE IF ~p.exists THEN Some("Image file not found")
    ELSE None

RECURSIVE first_partition_error(_)
\* main.rs:405-425: the loop returns at the first partition that is refused
first_partition_error(partitions) ==
    IF partitions = <<>> THEN None
    ELSE IF is_some(partition_error(Head(partitions))) THEN partition_error(Head(partitions))
    ELSE first_partition_error(Tail(partitions))

\* main.rs:383-425: the error flash_start returns before it creates a job, if any
flash_start_error(config, fastboot_exists) ==
    IF config.flashMethod # "fastboot" THEN Some("Only fastboot is supported")
    ELSE IF ~fastboot_exists THEN Some("fastboot not found in PATH")
    ELSE IF trim(config.deviceSerial) = <<>> THEN Some("deviceSerial is required")
    ELSE IF config.partitions = <<>> THEN Some("At least one partition is required")
    ELSE first_partition_error(config.partitions)

\* main.rs:427-430
job_id(ms, next) == "tauri-" \o ToString(ms) \o "-" \o ToString(next)

total_steps_without_reboot(config) ==
    Len(config.partitions) + (IF config.wipeUserData THEN 1 ELSE 0)

\* main.rs:433-435
total_steps(config) ==
    Len(config.partitions)
        + (IF config.wipeUserData THEN 1 ELSE 0)
        + (IF config.autoReboot THEN 1 ELSE 0)

\* main.rs:437-450
FlashJobRuntime(config) ==
    [status |-> "queued", progress |-> 0, current_step |-> "Queued",
     total_steps |-> total_steps(config), completed_steps |-> 0,
     start_time_ms |-> now_ms, end_time_ms |-> None,
     cancel_requested |-> FALSE, active_pid |-> None, config |-> config]

TerminalStatus == {"completed", "failed", "cancelled"}

\* main.rs:711-713: hist.truncate(200)
HistoryCap == 200

\* main.rs:473-490, the closure of the worker thread
set_job_status(jobs, id, status, step) ==
    IF id \in DOMAIN jobs
    THEN [jobs EXCEPT ![id] =
            [@ EXCEPT !.status = status,
                      !.current_step = step,
                      !.end_time_ms = IF status \in TerminalStatus THEN Some(now_ms) ELSE @]]
    ELSE jobs

\* main.rs:511-526, the closure of the worker thread
complete_step(jobs, id, completed, total) ==
    LET pct == IF total = 0 THEN 0 ELSE Min((completed * 100) \div total, 100) IN
    IF id \in DOMAIN jobs
    THEN [jobs EXCEPT ![id] = [@ EXCEPT !.completed_steps = completed, !.progress = pct]]
    ELSE jobs

\* main.rs:528-536, the closure of the worker thread
cancel_requested(jobs, id) == IF id \in DOMAIN jobs THEN jobs[id].cancel_requested ELSE FALSE

\* main.rs:721-728
flash_cancel(jobs, jobId) ==
    IF jobId \notin DOMAIN jobs
    THEN [ok |-> FALSE, jobs |-> jobs]
    ELSE [ok |-> TRUE,
          jobs |-> [jobs EXCEPT ![jobId] =
                      [@ EXCEPT !.cancel_requested = TRUE,
                                !.status = "cancelled",
                                !.end_time_ms = Some(now_ms)]]]

\* main.rs:547-665: the commands of a job in the order the worker runs them
plan(config) ==
    (IF config.wipeUserData THEN <<[kind |-> "wipe", step |-> "Wiping userdata (-w)"]>> ELSE <<>>)
        \o [i \in 1..Len(config.partitions) |->
              [kind |-> "flash",
               step |-> "Flashing " \o to_string(config.partitions[i].name.chars)]]
        \o (IF config.autoReboot THEN <<[kind |-> "reboot", step |-> "Rebooting"]>> ELSE <<>>)

\* main.rs:568, 579, 617, 628: the step a failed command leaves in the job
failed_step(command, config, i) ==
    IF command.kind = "wipe" THEN "Wipe failed"
    ELSE "Flash failed: "
            \o to_string(config.partitions[i - (IF config.wipeUserData THEN 1 ELSE 0)].name.chars)

\* the application before anything is called: a device state just created
\* (device_state.rs:424-490) and AppState as main() builds it (main.rs:1169-1176)
AppInit ==
    /\ now = 0
    /\ device_state = new(0)
    /\ last_call = "new"
    /\ caller_pc = [c \in 1..MaxCallers |-> "idle"]
    /\ device_monitor_started = FALSE
    /\ calls = 0
    /\ monitor_threads = <<>>
    /\ device_events = <<>>
    /\ scanned = <<>>
    /\ flash_jobs = <<>>
    /\ job_counter = 0
    /\ flash_history = <<>>
    /\ workers = <<>>
    /\ commands = <<>>
    /\ cancel_returned = {}

-----------------------------------------------------------------------------
(* scan() as a state machine *)

NoTools == [adb |-> missing, fastboot |-> missing, idevice_id |-> missing]

ScanInit ==
    /\ pc = "probe_usb"
    /\ devices = DeviceList(<<>>)
    /\ host_tools = [adb |-> Absent, fastboot |-> Absent, idevice_id |-> Absent]
    /\ spawned = {}
    /\ usb_transports = <<>>
    /\ tool_confirmers = NoTools
    /\ results = <<>>
    /\ steps = <<>>
    /\ outcome = "none"

Init == ScanInit /\ AppInit

\* lib.rs:21 with usb_scan.rs:10-23: the `?` returns the error of Context::new / devices()
ProbeUsbFailsFrom(hosts) ==
    /\ pc = "probe_usb"
    /\ \E host \in hosts :
          /\ ~probe_usb_transports(host).ok
          /\ devices' = host
    /\ pc' = "done"
    /\ outcome' = "Err"
    /\ UNCHANGED <<host_tools, spawned, usb_transports, tool_confirmers, results, steps>>
    /\ UNCHANGED app_vars

\* lib.rs:21 with usb_scan.rs:10-23
ProbeUsbTransportsFrom(hosts) ==
    /\ pc = "probe_usb"
    /\ \E host \in hosts :
          /\ probe_usb_transports(host).ok
          /\ devices' = host
          /\ usb_transports' = probe_usb_transports(host).value
    /\ pc' = "probe_adb"
    /\ UNCHANGED <<host_tools, spawned, tool_confirmers, results, steps, outcome>>
    /\ UNCHANGED app_vars

\* lib.rs:24 with confirmers.rs:17-23, 114-136
probe_adb_tool_from(tools) ==
    /\ pc = "probe_adb"
    /\ \E tool \in tools :
          /\ host_tools' = [host_tools EXCEPT !.adb = tool]
          /\ tool_confirmers' = [tool_confirmers EXCEPT !.adb = probe_adb(tool).evidence]
          /\ spawned' = IF probe_adb(tool).spawned THEN spawned \cup {"adb"} ELSE spawned
    /\ pc' = "probe_fastboot"
    /\ UNCHANGED <<devices, usb_transports, results, steps, outcome>>
    /\ UNCHANGED app_vars

\* confirmers.rs:142-164
probe_fastboot_tool_from(tools) ==
    /\ pc = "probe_fastboot"
    /\ \E tool \in tools :
          /\ host_tools' = [host_tools EXCEPT !.fastboot = tool]
          /\ tool_confirmers' = [tool_confirmers EXCEPT !.fastboot = probe_fastboot(tool).evidence]
          /\ spawned' = IF probe_fastboot(tool).spawned THEN spawned \cup {"fastboot"} ELSE spawned
    /\ pc' = "probe_idevice_id"
    /\ UNCHANGED <<devices, usb_transports, results, steps, outcome>>
    /\ UNCHANGED app_vars

\* confirmers.rs:170-192
probe_idevice_id_tool_from(tools) ==
    /\ pc = "probe_idevice_id"
    /\ \E tool \in tools :
          /\ host_tools' = [host_tools EXCEPT !.idevice_id = tool]
          /\ tool_confirmers' =
                [tool_confirmers EXCEPT !.idevice_id = probe_idevice_id(tool).evidence]
          /\ spawned' = IF probe_idevice_id(tool).spawned
                        THEN spawned \cup {"idevice_id"} ELSE spawned
    /\ pc' = "loop"
    /\ UNCHANGED <<devices, usb_transports, results, steps, outcome>>
    /\ UNCHANGED app_vars

\* what the resolver did for one transport, stage by stage (classify.rs:45, 48-51, 53-58)
resolver_steps(transport, all_transports, tools) ==
    LET a == phase_a(transport, tools) IN
    [base |-> classify_candidate_device(transport),
     a |-> a,
     b |-> phase_b(transport, all_transports, tools, a)]

\* lib.rs:26-68, the loop over usb_transports and the return
AssembleRecords ==
    /\ pc = "loop"
    /\ results' = [i \in 1..Len(usb_transports) |->
                      assemble_record(usb_transports[i], usb_transports, tool_confirmers)]
    /\ steps' = [i \in 1..Len(usb_transports) |->
                      resolver_steps(usb_transports[i], usb_transports, tool_confirmers)]
    /\ pc' = "done"
    /\ outcome' = "Ok"
    /\ UNCHANGED <<devices, host_tools, spawned, usb_transports, tool_confirmers>>
    /\ UNCHANGED app_vars

ProbeUsbFails == ProbeUsbFailsFrom(Hosts)

ProbeUsbTransports == ProbeUsbTransportsFrom(Hosts)

probe_adb_tool == probe_adb_tool_from(AdbTools)

probe_fastboot_tool == probe_fastboot_tool_from(FastbootTools)

probe_idevice_id_tool == probe_idevice_id_tool_from(IdeviceTools)

Next ==
    \/ ProbeUsbFails
    \/ ProbeUsbTransports
    \/ probe_adb_tool
    \/ probe_fastboot_tool
    \/ probe_idevice_id_tool
    \/ AssembleRecords

Spec == Init /\ [][Next]_vars

-----------------------------------------------------------------------------
(* Properties of the records of a scan *)

Range(s) == {s[i] : i \in 1..Len(s)}

ToolNames == {"adb", "fastboot", "idevice_id"}

\* the tools whose device_ids hold the serial of transport i (none without a serial)
ListedBy(i) ==
    IF usb_transports[i].serial = <<>> THEN {}
    ELSE {n \in ToolNames : usb_transports[i].serial[1] \in Range(tool_confirmers[n].device_ids)}

\* C1: correlation never decreases confidence: the confidence of every record is at
\* least the confidence the classifier alone gives its transport.
C1_CorrelationNeverDecreasesConfidence ==
    \A i \in 1..Len(results) :
        results[i].confidence >= classify_candidate_device(usb_transports[i]).confidence

\* a scan where one record was matched by serial and another by the heuristic
C1_Witness ==
    \E i, j \in 1..Len(results) :
        /\ steps[i].a.matched_ids # <<>>
        /\ steps[j].b.fired # <<>>
        /\ results[i].confidence > steps[i].base.confidence
        /\ results[j].confidence > steps[j].base.confidence

\* C2: the confidence of a record never exceeds 0.95, however many tools match.
C2_ConfidenceAtMostCap ==
    \A i \in 1..Len(results) : results[i].confidence <= 95

\* a record whose serial all three tools list, sitting at the cap
C2_Witness ==
    \E i \in 1..Len(results) : ListedBy(i) = ToolNames /\ results[i].confidence = 95

\* C3: when at least one tool lists the transport's serial, the record is exactly
\* what Phase A left: no heuristic fired, and mode, confidence, notes and matched
\* ids are Phase A's.
C3_PhaseAResultIsFinal ==
    \A i \in 1..Len(results) :
        ListedBy(i) # {} =>
            /\ steps[i].b.fired = <<>>
            /\ results[i].mode = as_str(steps[i].a.classification.mode)
            /\ results[i].confidence = steps[i].a.classification.confidence
            /\ results[i].notes = steps[i].a.classification.notes
            /\ results[i].matched_tool_ids = steps[i].a.matched_ids
            /\ Range(results[i].matched_tool_ids) = {usb_transports[i].serial[1]}

\* a serial-matched transport that is also the single Android candidate while adb
\* shows a single id: Phase B would match if it ran
C3_Witness ==
    \E i \in 1..Len(results) :
        /\ ListedBy(i) # {}
        /\ usb_transports[i].vid = "18d1"
        /\ \A j \in 1..Len(results) : j # i => usb_transports[j].vid = "05ac"
        /\ Len(tool_confirmers.adb.device_ids) = 1

\* C4: with k tools listing the serial, Phase A leaves min(c0 + 0.15 k, 0.95),
\* appends k notes and returns k ids; with k = 0 nothing changes.
C4_PhaseAArithmetic ==
    \A i \in 1..Len(results) :
        LET k == Cardinality(ListedBy(i))
            c0 == steps[i].base
            a == steps[i].a
        IN  /\ a.classification.confidence = Min(c0.confidence + 15 * k, 95)
            /\ Len(a.classification.notes) = Len(c0.notes) + k
            /\ SubSeq(a.classification.notes, 1, Len(c0.notes)) = c0.notes
            /\ Len(a.matched_ids) = k
            /\ k = 0 => a.classification = c0 /\ a.matched_ids = <<>>

\* a serial listed by exactly two tools, below the cap
C4_Witness ==
    \E i \in 1..Len(results) :
        /\ Cardinality(ListedBy(i)) = 2
        /\ steps[i].a.classification.confidence = steps[i].base.confidence + 30

\* C5: a direct adb match raises confidence; it sets Android-ADB-confirmed only
\* over unknown-USB and keeps any other mode; an Android-vendor transport with a
\* vendor-class interface whose serial only adb lists gives android_adb_confirmed,
\* confidence >= 0.85 and matched_tool_ids = [serial].
C5_AdbMatch ==
    \A i \in 1..Len(results) :
        "adb" \in ListedBy(i) =>
            LET c0 == steps[i].base
                a == steps[i].a.classification
                t == usb_transports[i]
            IN  /\ a.confidence > c0.confidence
                /\ "fastboot" \notin ListedBy(i) =>
                      a.mode = IF c0.mode = "UnknownUsb" THEN "AndroidAdbConfirmed" ELSE c0.mode
                /\ ( /\ ListedBy(i) = {"adb"}
                     /\ is_android_vendor(t.vid)
                     /\ \E h \in 1..Len(t.interface_hints) : t.interface_hints[h].class = 255 ) =>
                      /\ results[i].mode = <<"android", "adb", "confirmed">>
                      /\ results[i].confidence >= 85
                      /\ results[i].matched_tool_ids = <<t.serial[1]>>

\* the end-to-end scenario beside an Apple transport whose serial adb lists too
C5_Witness ==
    \E i, j \in 1..Len(results) :
        /\ ListedBy(i) = {"adb"} /\ ListedBy(j) = {"adb"}
        /\ usb_transports[i].vid = "18d1" /\ usb_transports[i].interface_hints # <<>>
        /\ results[i].mode = <<"android", "adb", "confirmed">>
        /\ usb_transports[j].vid = "05ac"
        /\ results[j].mode = <<"ios", "dfu", "likely">>

\* C6: a direct fastboot match always leaves Android-Fastboot-confirmed, whatever
\* the classifier's mode and whichever other tools matched.
C6_FastbootMatch ==
    \A i \in 1..Len(results) :
        "fastboot" \in ListedBy(i) =>
            /\ steps[i].a.classification.mode = "AndroidFastbootConfirmed"
            /\ results[i].mode = <<"android", "fastboot", "confirmed">>

\* an Apple transport, classified iOS-DFU-likely, whose serial all three tools list
C6_Witness ==
    \E i \in 1..Len(results) :
        /\ ListedBy(i) = ToolNames
        /\ steps[i].base.mode = "IosDfuLikely"
        /\ results[i].mode = <<"android", "fastboot", "confirmed">>

\* C7: a serial listed by idevice_id alone raises confidence and keeps the
\* classifier's mode.
C7_IdeviceMatchKeepsMode ==
    \A i \in 1..Len(results) :
        ListedBy(i) = {"idevice_id"} =>
            /\ steps[i].a.classification.mode = steps[i].base.mode
            /\ results[i].mode = as_str(steps[i].base.mode)
            /\ results[i].confidence > steps[i].base.confidence

\* idevice_id alone lists the serial of an Apple DFU transport and of a transport
\* the classifier left unknown
C7_Witness ==
    \E i, j \in 1..Len(results) :
        /\ ListedBy(i) = {"idevice_id"} /\ ListedBy(j) = {"idevice_id"}
        /\ results[i].mode = <<"ios", "dfu", "likely">>
        /\ results[j].mode = <<"unknown", "usb">>

\* the tools whose heuristic matched for transport i
FiredTools(i) == {steps[i].b.fired[k].tool : k \in 1..Len(steps[i].b.fired)}

\* the transports that are plausible candidates for a tool's platform
Candidates(n) ==
    IF n = "idevice_id"
    THEN {j \in 1..Len(usb_transports) : usb_transports[j].vid = "05ac"}
    ELSE {j \in 1..Len(usb_transports) :
            /\ usb_transports[j].vid # "05ac"
            /\ \/ is_android_vendor(usb_transports[j].vid)
               \/ \E h \in 1..Len(usb_transports[j].interface_hints) :
                     usb_transports[j].interface_hints[h].class = 255}

RawNamesRecovery ==
    \E k \in 1..Len(tool_confirmers.adb.raw) :
        tool_confirmers.adb.raw[k] \in {"sideload", "recovery", "RECOVERY"}

\* C9: a matching adb or fastboot heuristic leaves confidence 0.90, adb's leaving
\* Android-recovery-ADB-confirmed when the raw output names sideload or recovery
\* and Android-ADB-confirmed otherwise; a matching idevice_id heuristic leaves 0.95
\* and iOS-normal-likely; each adds the tool's sole id and one note.
C9_HeuristicOutcomes ==
    \A i \in 1..Len(results) :
        LET a == steps[i].a
            b == steps[i].b
        IN  /\ \A k \in 1..Len(b.fired) :
                  LET e == b.fired[k] IN
                  /\ e.tool = "adb" =>
                        /\ e.confidence = 90
                        /\ e.mode = IF RawNamesRecovery THEN "AndroidRecoveryAdbConfirmed"
                                    ELSE "AndroidAdbConfirmed"
                  /\ e.tool = "fastboot" => e.confidence = 90
                  /\ e.tool = "idevice_id" => e.confidence = 95 /\ e.mode = "IosNormalLikely"
                  /\ b.matched[k] = tool_confirmers[e.tool].device_ids[1]
            /\ Len(b.matched) = Len(b.fired)
            /\ Len(b.classification.notes) = Len(a.classification.notes) + Len(b.fired)
            /\ b.fired # <<>> =>
                  /\ results[i].matched_tool_ids = b.matched
                  /\ results[i].confidence = b.fired[Len(b.fired)].confidence
                  /\ results[i].mode = as_str(b.fired[Len(b.fired)].mode)
                  /\ Len(results[i].notes) = Len(steps[i].base.notes) + Len(b.fired)

\* adb's heuristic alone matches an Android transport under an output that names
\* RECOVERY in capitals, and idevice_id's matches an iOS-DFU-likely transport
C9_Witness ==
    \E i, j \in 1..Len(results) :
        /\ FiredTools(i) = {"adb"}
        /\ \E k \in 1..Len(tool_confirmers.adb.raw) : tool_confirmers.adb.raw[k] = "RECOVERY"
        /\ results[i].mode = <<"android", "recovery", "adb", "confirmed">>
        /\ FiredTools(j) = {"idevice_id"}
        /\ steps[j].base.mode = "IosDfuLikely"
        /\ results[j].mode = <<"ios", "normal", "likely">>

\* C10: device_uid is the serial when present, else the first matched tool id,
\* else the composite usb:<vid>:<pid>:bus<bus>:addr<address>.
C10_DeviceUidPrecedence ==
    \A i \in 1..Len(results) :
        LET t == usb_transports[i] IN
        results[i].device_uid =
            IF t.serial # <<>> THEN t.serial[1]
            ELSE IF results[i].matched_tool_ids # <<>> THEN results[i].matched_tool_ids[1]
            ELSE "usb:" \o t.vid \o ":" \o t.pid \o ":bus" \o ToString(t.bus)
                    \o ":addr" \o ToString(t.address)

\* a transport with a serial and a different, heuristically matched tool id
C10_Witness ==
    \E i \in 1..Len(results) :
        /\ usb_transports[i].serial = <<"S1">>
        /\ results[i].matched_tool_ids = <<"T1">>
        /\ results[i].device_uid = "S1"

-----------------------------------------------------------------------------
(* The shape of the records *)

\* the seven mode strings, word by word
ModeStrings ==
    {<<"ios", "normal", "likely">>, <<"ios", "recovery", "likely">>, <<"ios", "dfu", "likely">>,
     <<"android", "adb", "confirmed">>, <<"android", "fastboot", "confirmed">>,
     <<"android", "recovery", "adb", "confirmed">>, <<"unknown", "usb">>}

\* C11: the mode of every record is one of the seven fixed strings, and its
\* platform_hint follows from the mode's prefix alone: "ios" exactly for the ios_
\* modes, "android" exactly for the android_ modes, "unknown" otherwise.
C11_ModeClosedAndPlatformFromPrefix ==
    \A i \in 1..Len(results) :
        /\ results[i].mode \in ModeStrings
        /\ results[i].platform_hint \in {"ios", "android", "unknown"}
        /\ results[i].platform_hint = "ios" <=> results[i].mode[1] = "ios"
        /\ results[i].platform_hint = "android" <=> results[i].mode[1] = "android"
        /\ results[i].platform_hint = "unknown" <=> results[i].mode[1] \notin {"ios", "android"}

\* one scan with an iOS DFU record and an Android fastboot record
C11_Witness ==
    \E i, j \in 1..Len(results) :
        /\ results[i].mode = <<"ios", "dfu", "likely">>
        /\ results[i].platform_hint = "ios"
        /\ results[j].mode = <<"android", "fastboot", "confirmed">>
        /\ results[j].platform_hint = "android"

\* C12: a scan that succeeds returns one record per observed transport, in the order
\* of observation; the evidence of a record holds its own transport and a tool map
\* with exactly the keys adb, fastboot and idevice_id, present even for a missing
\* tool; the tool evidence is the collector's, hence the same in every record.
C12_OneRecordPerTransportWithFullToolMap ==
    outcome = "Ok" =>
        /\ Len(results) = Len(usb_transports)
        /\ \A i \in 1..Len(results) :
              /\ results[i].evidence.usb = usb_transports[i]
              /\ DOMAIN results[i].evidence.tools = ToolNames
              /\ \A n \in ToolNames : results[i].evidence.tools[n] = tool_confirmers[n]
        /\ \A i, j \in 1..Len(results) : results[i].evidence.tools = results[j].evidence.tools

\* two transports scanned while fastboot is missing and adb lists a device
C12_Witness ==
    /\ outcome = "Ok"
    /\ Len(usb_transports) = 2
    /\ Len(results) = 2
    /\ results[1].evidence.usb # results[2].evidence.usb
    /\ tool_confirmers.fastboot = missing
    /\ results[2].evidence.tools.fastboot = missing
    /\ results[1].evidence.tools.adb.seen

-----------------------------------------------------------------------------
(* A scan on a host where some device descriptors cannot be read *)

ProbeKinds == {<<"05ac", "1227", <<>>>>, <<"18d1", "4ee7", <<VendorHint>>>>}

\* what extract_transport_evidence gives for the device at position n
ProbeDevicesAt(n) ==
    {None} \cup {Some(UsbTransportEvidence(kind, serial, n)) : kind \in ProbeKinds, serial \in Serials}

ProbeHosts == {UsbUnavailable} \cup
    UNION {{DeviceList(l) : l \in {s \in [1..k -> UNION {ProbeDevicesAt(n) : n \in 1..k}] :
                                      \A n \in 1..k : s[n] \in ProbeDevicesAt(n)}} :
           k \in 0..MaxTransports}

NextProbe ==
    \/ ProbeUsbFailsFrom(ProbeHosts)
    \/ ProbeUsbTransportsFrom(ProbeHosts)
    \/ probe_adb_tool
    \/ probe_fastboot_tool
    \/ probe_idevice_id_tool
    \/ AssembleRecords

SpecProbe == Init /\ [][NextProbe]_vars

\* the positions of the host's list whose descriptor could be read
Readable == {k \in 1..Len(devices.list) : devices.list[k] # <<>>}

\* C13: scan returns either a list of records or one error, never both; the error is
\* returned exactly when the USB context or the device list cannot be obtained, and
\* then there are no records; a device whose descriptor cannot be read is skipped
\* and every other device of the list gets its record, in the list's order; no
\* state of the tools (absent, failing to run) makes the scan return an error.
C13_ErrorOnlyFromUsbAndUnreadableSkipped ==
    /\ outcome \in {"none", "Ok", "Err"}
    /\ outcome = "Err" => results = <<>>
    /\ pc = "done" => outcome \in {"Ok", "Err"}
    /\ pc = "done" => (outcome = "Err" <=> ~devices.ok)
    /\ outcome = "Ok" =>
          /\ Len(results) = Cardinality(Readable)
          /\ \A k \in Readable :
                results[Cardinality({j \in Readable : j <= k})].evidence.usb = devices.list[k][1]
    /\ (pc = "done" /\ devices.ok) =>
          \A n \in ToolNames : host_tools[n] \in {Absent, Unrunnable} => outcome = "Ok"

\* the first device's descriptor cannot be read, the second device gets the only
\* record; adb is absent and fastboot cannot be run
C13_Witness ==
    /\ outcome = "Ok"
    /\ Len(devices.list) = 2
    /\ devices.list[1] = <<>>
    /\ Len(results) = 1
    /\ results[1].evidence.usb = devices.list[2][1]
    /\ results[1].evidence.usb.address = 2
    /\ host_tools.adb = Absent
    /\ host_tools.fastboot = Unrunnable

-----------------------------------------------------------------------------
(* The tool evidence collector *)

\* the notes a tool's Phase A match and Phase B match leave on a record
ToolNotes(n) ==
    CASE n = "adb" ->
            {"Correlated: adb device id matches USB serial",
             "Correlated: single likely-Android USB device + single adb device id present (heuristic)"}
      [] n = "fastboot" ->
            {"Correlated: fastboot device id matches USB serial",
             "Correlated: single likely-Android USB device + single fastboot device id present (heuristic)"}
      [] n = "idevice_id" ->
            {"Correlated: idevice UDID matches",
             "Correlated: single idevice_id UDID + single Apple USB device present"}

\* C14: a tool that is absent from the host is reported missing (present = false,
\* seen = false, no ids) and its own command is never run; a tool that is available
\* but cannot be executed is reported present = true, seen = false, no ids; in both
\* states the tool matches nothing in Phase A or Phase B: no record carries a note
\* or an id of it, and with all three tools in these states every record is exactly
\* what the classifier gave.
C14_AbsentAndUnrunnableTools ==
    \A n \in ToolNames :
        /\ host_tools[n] = Absent =>
              /\ ~tool_confirmers[n].present
              /\ ~tool_confirmers[n].seen
              /\ tool_confirmers[n].device_ids = <<>>
              /\ n \notin spawned
        /\ host_tools[n] = Unrunnable =>
              /\ tool_confirmers[n].present
              /\ ~tool_confirmers[n].seen
              /\ tool_confirmers[n].device_ids = <<>>
        /\ host_tools[n] \in {Absent, Unrunnable} =>
              \A i \in 1..Len(results) :
                  /\ n \notin FiredTools(i)
                  /\ Range(results[i].notes) \cap ToolNotes(n) = {}
                  /\ Len(results[i].matched_tool_ids) <=
                        Cardinality({m \in ToolNames : host_tools[m] \notin {Absent, Unrunnable}})
                  /\ (\A m \in ToolNames : host_tools[m] \in {Absent, Unrunnable}) =>
                        /\ results[i].matched_tool_ids = <<>>
                        /\ results[i].mode = as_str(steps[i].base.mode)
                        /\ results[i].confidence = steps[i].base.confidence
                        /\ results[i].notes = steps[i].base.notes

\* adb is absent and was not run, fastboot was run and failed, idevice_id lists the
\* serial of a scanned transport, which is the record's only match
C14_Witness ==
    /\ outcome = "Ok"
    /\ host_tools.adb = Absent
    /\ "adb" \notin spawned
    /\ host_tools.fastboot = Unrunnable
    /\ "fastboot" \in spawned
    /\ tool_confirmers.fastboot = exec_error
    /\ \E i \in 1..Len(results) :
          /\ usb_transports[i].serial = <<"S1">>
          /\ results[i].matched_tool_ids = <<"S1">>
          /\ "Correlated: idevice UDID matches" \in Range(results[i].notes)

\* C15: every ToolEvidence the collector produces, and every copy of it in a record,
\* satisfies seen => present and device_ids non-empty => seen.
C15_ToolEvidenceInvariant ==
    /\ \A n \in ToolNames :
          /\ tool_confirmers[n].seen => tool_confirmers[n].present
          /\ tool_confirmers[n].device_ids # <<>> => tool_confirmers[n].seen
    /\ \A i \in 1..Len(results) : \A n \in DOMAIN results[i].evidence.tools :
          /\ results[i].evidence.tools[n].seen => results[i].evidence.tools[n].present
          /\ results[i].evidence.tools[n].device_ids # <<>> => results[i].evidence.tools[n].seen

\* adb ran and listed a device, fastboot ran and listed none, idevice_id is missing
C15_Witness ==
    /\ pc = "done"
    /\ Len(results) > 0
    /\ tool_confirmers.adb.device_ids # <<>>
    /\ tool_confirmers.adb.seen
    /\ host_tools.fastboot = Runs(<<>>)
    /\ tool_confirmers.fastboot.present
    /\ ~tool_confirmers.fastboot.seen
    /\ tool_confirmers.idevice_id = missing

-----------------------------------------------------------------------------
(* The classifier on the whole range of descriptors: one device on the bus, no tools *)

MassStorageHint == InterfaceHint(8, 6, 80)

ClassifyVids == {"05ac", "18d1", "22b8", "0000"}

\* the four product codes classify_apple_device knows, and two it does not
ClassifyPids == {"1227", "1281", "12a8", "12ab", "1290", "4ee7"}

Manufacturers == {None, Some(<<"Apple", "Inc.">>)}

Products == {None, Some(<<"iPhone">>), Some(<<"iPad">>), Some(<<"Apple", "Mobile", "Device">>)}

HintLists == SeqOf({VendorHint, MassStorageHint}, MaxHints)

\* usb_scan.rs:53-63 with every field free; the device sits at address n
ClassifyTransports ==
    {[vid |-> vid, pid |-> pid, manufacturer |-> manufacturer, product |-> product,
      serial |-> serial, bus |-> 1, address |-> n,
      interface_class |-> IF hints = <<>> THEN None ELSE Some(hints[1].class),
      interface_hints |-> hints] :
        vid \in ClassifyVids, pid \in ClassifyPids, manufacturer \in Manufacturers,
        product \in Products, serial \in Serials, n \in 1..MaxTransports, hints \in HintLists}

ClassifyHosts == {UsbUnavailable} \cup {DeviceList(<<Some(t)>>) : t \in ClassifyTransports}

NextClassify ==
    \/ ProbeUsbFailsFrom(ClassifyHosts)
    \/ ProbeUsbTransportsFrom(ClassifyHosts)
    \/ probe_adb_tool_from({Absent})
    \/ probe_fastboot_tool_from({Absent})
    \/ probe_idevice_id_tool_from({Absent})
    \/ AssembleRecords

SpecClassify == Init /\ [][NextClassify]_vars

\* C16: for an Apple transport a known product code decides the classification
\* whatever the strings, bus, address and interface hints are: 1227 gives
\* iOS-DFU-likely at 0.86, 1281 gives iOS-recovery-likely at a confidence within
\* 0.82..0.86 (above 0.8), 12a8 and 12ab give iOS-normal-likely at 0.75.
C16_AppleKnownProductCodes ==
    \A i \in 1..Len(steps) :
        LET t == usb_transports[i]
            c == steps[i].base
        IN  t.vid = "05ac" =>
              /\ t.pid = "1227" => c.mode = "IosDfuLikely" /\ c.confidence = 86
              /\ t.pid = "1281" =>
                    /\ c.mode = "IosRecoveryLikely"
                    /\ c.confidence >= 82
                    /\ c.confidence <= 86
                    /\ c.confidence > 80
              /\ t.pid \in {"12a8", "12ab"} => c.mode = "IosNormalLikely" /\ c.confidence = 75

\* the recovery code on a device without product and serial strings and with a
\* vendor-class interface, which an unknown code would make DFU-likely
C16_Witness ==
    \E i \in 1..Len(steps) :
        /\ usb_transports[i].vid = "05ac"
        /\ usb_transports[i].pid = "1281"
        /\ usb_transports[i].product = <<>>
        /\ usb_transports[i].serial = <<>>
        /\ usb_transports[i].interface_hints = <<MassStorageHint, VendorHint>>
        /\ usb_transports[i].address = 2
        /\ steps[i].base.mode = "IosRecoveryLikely"
        /\ results[i].mode = <<"ios", "recovery", "likely">>

\* the product codes classify_apple_device has an arm for
KnownApplePids == {"1227", "1281", "12a8", "12ab"}

HasVendorClass(t) == \E h \in 1..Len(t.interface_hints) : t.interface_hints[h].class = 255

NamesIosFamily(t) ==
    /\ t.product # <<>>
    /\ \E w \in 1..Len(t.product[1]) : t.product[1][w] \in {"iPhone", "iPad"}

\* C17 as stated: for an Apple transport with an unrecognized product code, absent
\* manufacturer and serial strings together with a vendor-class interface give
\* iOS-DFU-likely at 0.86; else a product string naming iPhone or iPad gives
\* iOS-normal-likely at 0.70; else iOS-recovery-likely at 0.75.
C17_AsStated_ManufacturerAndSerial ==
    \A i \in 1..Len(steps) :
        LET t == usb_transports[i]
            c == steps[i].base
        IN  (t.vid = "05ac" /\ t.pid \notin KnownApplePids) =>
              IF t.manufacturer = <<>> /\ t.serial = <<>> /\ HasVendorClass(t)
              THEN c.mode = "IosDfuLikely" /\ c.confidence = 86
              ELSE IF NamesIosFamily(t)
              THEN c.mode = "IosNormalLikely" /\ c.confidence = 70
              ELSE c.mode = "IosRecoveryLikely" /\ c.confidence = 75

\* C17: for an Apple transport with an unrecognized product code, absent PRODUCT and
\* serial strings together with a vendor-class interface give iOS-DFU-likely at
\* 0.86, whatever the manufacturer string is; else a product string naming iPhone or
\* iPad gives iOS-normal-likely at 0.70; else iOS-recovery-likely at 0.75.
C17_AppleUnknownProductCode ==
    \A i \in 1..Len(steps) :
        LET t == usb_transports[i]
            c == steps[i].base
        IN  (t.vid = "05ac" /\ t.pid \notin KnownApplePids) =>
              IF t.product = <<>> /\ t.serial = <<>> /\ HasVendorClass(t)
              THEN c.mode = "IosDfuLikely" /\ c.confidence = 86
              ELSE IF NamesIosFamily(t)
              THEN c.mode = "IosNormalLikely" /\ c.confidence = 70
              ELSE c.mode = "IosRecoveryLikely" /\ c.confidence = 75

\* an unrecognized code on a device that reports a manufacturer string but neither
\* product nor serial and has a vendor-class interface: DFU-likely
C17_Witness ==
    \E i \in 1..Len(steps) :
        /\ usb_transports[i].vid = "05ac"
        /\ usb_transports[i].pid = "1290"
        /\ usb_transports[i].manufacturer = <<<<"Apple", "Inc.">>>>
        /\ usb_transports[i].product = <<>>
        /\ usb_transports[i].serial = <<>>
        /\ HasVendorClass(usb_transports[i])
        /\ steps[i].base.mode = "IosDfuLikely"
        /\ steps[i].base.confidence = 86

AndroidVendorSet ==
    {"18d1", "04e8", "2a70", "2717", "0bb4", "12d1", "0fce", "19d2", "1004", "0e8d",
     "2a45", "1ebf", "0502", "1782", "22b8"}

\* C18: for a transport whose vendor is in the Android vendor set, any interface
\* hint of class 0xFF makes the classifier call it likely Android at confidence
\* 0.70 (so at least 0.70): its first note says so and the mode stays unknown-USB,
\* there being no Android-likely mode; without such a hint the classifier returns
\* unknown-USB at confidence 0.60.
C18_AndroidVendorSet ==
    \A i \in 1..Len(steps) :
        LET t == usb_transports[i]
            c == steps[i].base
        IN  t.vid \in AndroidVendorSet =>
              IF HasVendorClass(t)
              THEN /\ c.confidence = 70
                   /\ c.confidence >= 70
                   /\ c.notes[1] = "Likely Android-related USB device (vendor interface/VID)"
                   /\ c.mode = "UnknownUsb"
              ELSE /\ c.mode = "UnknownUsb"
                   /\ c.confidence = 60

\* a Motorola device whose second interface is the vendor-class one
C18_Witness ==
    \E i \in 1..Len(steps) :
        /\ usb_transports[i].vid = "22b8"
        /\ usb_transports[i].interface_hints = <<MassStorageHint, VendorHint>>
        /\ steps[i].base.confidence = 70
        /\ results[i].confidence = 70
        /\ results[i].mode = <<"unknown", "usb">>

\* C19: the classifier gives every transport exactly one classification, with a mode
\* of the closed set and a confidence within [0, 1], and the record assembled from a
\* second evaluation carries the same one; the rules apply in order, first match
\* wins: an Apple vendor gives an iOS mode whatever the interfaces are, then a vendor
\* of the Android set gives unknown-USB at 0.60 or 0.70, and every other vendor
\* (e.g. "0000") gives unknown-USB at 0.50, within [0.5, 0.6], even with a
\* vendor-class interface.
C19_ClassifierTotalFirstMatch ==
    /\ Len(steps) = Len(results)
    /\ outcome = "Ok" => Len(steps) = Len(usb_transports)
    /\ \A i \in 1..Len(steps) :
        LET t == usb_transports[i]
            c == steps[i].base
        IN  /\ c.mode \in DeviceMode
            /\ c.confidence >= 0
            /\ c.confidence <= 100
            /\ c.notes # <<>>
            /\ results[i].mode = as_str(c.mode)
            /\ results[i].confidence = c.confidence
            /\ t.vid = "05ac" => c.mode \in {"IosNormalLikely", "IosRecoveryLikely", "IosDfuLikely"}
            /\ (t.vid # "05ac" /\ t.vid \in AndroidVendorSet) =>
                  c.mode = "UnknownUsb" /\ c.confidence \in {60, 70}
            /\ (t.vid # "05ac" /\ t.vid \notin AndroidVendorSet) =>
                  /\ c.mode = "UnknownUsb"
                  /\ c.confidence = 50
                  /\ c.confidence >= 50
                  /\ c.confidence <= 60

\* vendor "0000" with a vendor-class interface: still unknown-USB at 0.50
C19_Witness ==
    \E i \in 1..Len(steps) :
        /\ usb_transports[i].vid = "0000"
        /\ usb_transports[i].interface_hints = <<VendorHint>>
        /\ steps[i].base.mode = "UnknownUsb"
        /\ steps[i].base.confidence = 50
        /\ results[i].platform_hint = "unknown"

-----------------------------------------------------------------------------
(* The adb parser on the whole range of `adb devices -l` listings *)

ParseSerials == {"ABC123", "DEF456"}

ParseAdbStates == {"device", "sideload", "recovery", "unauthorized", "offline"}

\* a line after the header: blank, a serial alone, a serial and its state, or a
\* serial, its state and the details -l adds
ParseAdbLines ==
    {<<>>}
    \cup {<<id>> : id \in ParseSerials}
    \cup {<<id, state>> : id \in ParseSerials, state \in ParseAdbStates}
    \cup {<<id, "device", "usb:1-1">> : id \in ParseSerials}

ParseAdbOutputs == {<<AdbHeader>> \o body : body \in SeqOf(ParseAdbLines, MaxLines)}

ParseAdbTools == {Absent, Unrunnable} \cup {Runs(stdout) : stdout \in ParseAdbOutputs}

\* nothing attached, or one Android device whose USB serial is DEF456
ParseHosts ==
    {UsbUnavailable, DeviceList(<<>>),
     DeviceList(<<Some(UsbTransportEvidence(<<"18d1", "4ee7", <<VendorHint>>>>, Some("DEF456"), 1))>>)}

NextParseAdb ==
    \/ ProbeUsbFailsFrom(ParseHosts)
    \/ ProbeUsbTransportsFrom(ParseHosts)
    \/ probe_adb_tool_from(ParseAdbTools)
    \/ probe_fastboot_tool_from({Absent})
    \/ probe_idevice_id_tool_from({Absent})
    \/ AssembleRecords

SpecParseAdb == Init /\ [][NextParseAdb]_vars

\* the lines after the header whose second token is an accepted state
AdbAccepted(out) ==
    {k \in 2..Len(out) : Len(out[k]) >= 2 /\ out[k][2] \in {"device", "sideload", "recovery"}}

\* C20: of an adb listing the header line is skipped and each remaining non-empty
\* line gives its first token as a serial exactly when its second token is device,
\* sideload or recovery; a line with another state (unauthorized, offline) or with
\* no state gives no id and no error; the serials come in line order, so the header
\* with "ABC123 device" and "DEF456 device" gives exactly [ABC123, DEF456].
C20_AdbParsing ==
    host_tools.adb.ok =>
        LET out == host_tools.adb.stdout
            ids == tool_confirmers.adb.device_ids
        IN  /\ tool_confirmers.adb.present
            /\ Len(ids) = Cardinality(AdbAccepted(out))
            /\ \A k \in AdbAccepted(out) :
                  ids[Cardinality({j \in AdbAccepted(out) : j <= k})] = out[k][1]
            /\ out = <<AdbHeader, <<"ABC123", "device">>, <<"DEF456", "device">>>> =>
                  ids = <<"ABC123", "DEF456">>
            /\ (pc = "done" /\ devices.ok) => outcome = "Ok"

\* a listing with an accepted line, a line without a state, and another accepted
\* line: both serials in line order, and the scanned device matched by the first
C20_Witness ==
    /\ outcome = "Ok"
    /\ host_tools.adb.stdout =
          <<AdbHeader, <<"DEF456", "device", "usb:1-1">>, <<"ABC123">>, <<"ABC123", "recovery">>>>
    /\ tool_confirmers.adb.device_ids = <<"DEF456", "ABC123">>
    /\ Len(results) = 1
    /\ results[1].matched_tool_ids = <<"DEF456">>

-----------------------------------------------------------------------------
(* The fastboot and idevice_id parsers on listings with blank lines *)

\* a line of `fastboot devices`: blank, a serial alone, or a serial and "fastboot"
ParseFastbootLines ==
    {<<>>, <<"ABC123">>, <<"ABC123", "fastboot">>, <<"DEF456", "fastboot">>}

\* a line of `idevice_id -l`: blank, a UDID, or a UDID followed by another word
ParseIdeviceLines ==
    {<<>>, <<"00008030-001A3D2A1E38001E">>, <<"00008030-001A3D2A1E38001F">>,
     <<"00008030-001A3D2A1E38001E", "(USB)">>}

ParseFastbootTools ==
    {Absent, Unrunnable} \cup {Runs(stdout) : stdout \in SeqOf(ParseFastbootLines, MaxLines)}

ParseIdeviceTools ==
    {Absent, Unrunnable} \cup {Runs(stdout) : stdout \in SeqOf(ParseIdeviceLines, MaxLines)}

NextParseLists ==
    \/ ProbeUsbFailsFrom(ParseHosts)
    \/ ProbeUsbTransportsFrom(ParseHosts)
    \/ probe_adb_tool_from({Absent})
    \/ probe_fastboot_tool_from(ParseFastbootTools)
    \/ probe_idevice_id_tool_from(ParseIdeviceTools)
    \/ AssembleRecords

SpecParseLists == Init /\ [][NextParseLists]_vars

\* the non-blank lines of a listing
NonBlank(out) == {k \in 1..Len(out) : out[k] # <<>>}

\* a whole line of at most two words, as text
WholeLine(line) == IF Len(line) = 1 THEN line[1] ELSE line[1] \o " " \o line[2]

\* C21: of a fastboot listing and of an idevice_id listing every non-blank line gives
\* exactly one identifier, in line order: the line's first token for fastboot, the
\* whole trimmed line for idevice_id; blank lines give none, so there are as many
\* identifiers as non-blank lines.
C21_FastbootAndIdeviceParsing ==
    /\ host_tools.fastboot.ok =>
          LET out == host_tools.fastboot.stdout
              ids == tool_confirmers.fastboot.device_ids
          IN  /\ Len(ids) = Cardinality(NonBlank(out))
              /\ \A k \in NonBlank(out) :
                    ids[Cardinality({j \in NonBlank(out) : j <= k})] = out[k][1]
    /\ host_tools.idevice_id.ok =>
          LET out == host_tools.idevice_id.stdout
              ids == tool_confirmers.idevice_id.device_ids
          IN  /\ Len(ids) = Cardinality(NonBlank(out))
              /\ \A k \in NonBlank(out) :
                    ids[Cardinality({j \in NonBlank(out) : j <= k})] = WholeLine(out[k])

\* both listings hold a blank line between two identifier lines
C21_Witness ==
    /\ outcome = "Ok"
    /\ host_tools.fastboot.stdout = <<<<"DEF456", "fastboot">>, <<>>, <<"ABC123">>>>
    /\ tool_confirmers.fastboot.device_ids = <<"DEF456", "ABC123">>
    /\ host_tools.idevice_id.stdout =
          <<<<"00008030-001A3D2A1E38001E", "(USB)">>, <<>>, <<"00008030-001A3D2A1E38001F">>>>
    /\ tool_confirmers.idevice_id.device_ids =
          <<"00008030-001A3D2A1E38001E (USB)", "00008030-001A3D2A1E38001F">>

-----------------------------------------------------------------------------
(* Identity across the records of one scan *)

\* the transports of the scan have pairwise distinct (bus, address) pairs and
\* pairwise distinct serials where a serial is present
DistinctTransports ==
    \A i, j \in 1..Len(usb_transports) :
        i # j =>
            /\ <<usb_transports[i].bus, usb_transports[i].address>> #
                  <<usb_transports[j].bus, usb_transports[j].address>>
            /\ (usb_transports[i].serial # <<>> /\ usb_transports[j].serial # <<>>) =>
                  usb_transports[i].serial # usb_transports[j].serial

\* C26: within one scan of transports with pairwise distinct (bus, address) pairs and
\* pairwise distinct serials, the device_uid values of the records are pairwise
\* distinct, whatever the tools report.
C26_DeviceUidsDistinct ==
    DistinctTransports =>
        \A i, j \in 1..Len(results) : i # j => results[i].device_uid # results[j].device_uid

\* C27: within one scan of transports with pairwise distinct serials, no identifier
\* appears in the matched_tool_ids of the records of two different transports.
C27_ToolIdAttributedOnce ==
    DistinctTransports =>
        \A i, j \in 1..Len(results) :
            i # j => Range(results[i].matched_tool_ids) \cap Range(results[j].matched_tool_ids) = {}

\* C28: a record's platform_hint never contradicts its USB vendor: an Apple transport
\* never has platform_hint "android", and platform_hint "ios" occurs only on an
\* Apple transport.
C28_PlatformHintAgreesWithVendor ==
    \A i \in 1..Len(results) :
        /\ usb_transports[i].vid = "05ac" => results[i].platform_hint # "android"
        /\ results[i].platform_hint = "ios" => usb_transports[i].vid = "05ac"

-----------------------------------------------------------------------------
(* One UnifiedDeviceState followed through its mode changes *)

\* the wall clock moves on between calls
Tick ==
    /\ now < MaxClock
    /\ now' = now + 1
    /\ UNCHANGED <<device_state, last_call>>
    /\ UNCHANGED scan_vars
    /\ UNCHANGED <<monitor_vars, flash_vars>>

\* a caller detects a mode and records it (device_state.rs:501-504)
SetMode ==
    /\ \E mode \in DeviceStateMode : device_state' = set_mode(device_state, mode, now)
    /\ last_call' = "set_mode"
    /\ UNCHANGED now
    /\ UNCHANGED scan_vars
    /\ UNCHANGED <<monitor_vars, flash_vars>>

\* a caller sees the device again (device_state.rs:493-498)
Touch ==
    /\ device_state' = touch(device_state, now)
    /\ last_call' = "touch"
    /\ UNCHANGED now
    /\ UNCHANGED scan_vars
    /\ UNCHANGED <<monitor_vars, flash_vars>>

NextDeviceState == Tick \/ SetMode \/ Touch

SpecDeviceState == Init /\ [][NextDeviceState]_vars

FlashableModes == {"Fastboot", "Download", "Edl", "Dfu"}

NormalModes == {"Normal", "Adb", "Mtp"}

\* C23: after any sequence of set_mode calls is_flashable() is true exactly when the
\* current mode is Fastboot, Download, Edl or Dfu, is_normal() exactly when it is
\* Normal, Adb or Mtp, never both at once; a newly created state has mode Unknown
\* and is neither flashable nor normal.
C23_FlashabilityFromModeAlone ==
    /\ device_state.connection.mode \in DeviceStateMode
    /\ is_flashable(device_state) <=> device_state.connection.mode \in FlashableModes
    /\ is_normal(device_state) <=> device_state.connection.mode \in NormalModes
    /\ ~(is_flashable(device_state) /\ is_normal(device_state))
    /\ last_call = "new" =>
          /\ device_state.connection.mode = "Unknown"
          /\ ~is_flashable(device_state)
          /\ ~is_normal(device_state)

\* a state that was set to Recovery and then seen again later: neither flashable nor normal
C23_Witness ==
    /\ last_call = "touch"
    /\ device_state.connection.mode = "Recovery"
    /\ device_state.timestamps.last_seen > device_state.timestamps.first_seen
    /\ ~is_flashable(device_state)
    /\ ~is_normal(device_state)

-----------------------------------------------------------------------------
(* The device monitor: started once, then one scan per cycle *)

\* what the host shows the monitor from cycle to cycle
MonitorHosts ==
    LET phone == UsbTransportEvidence(<<"18d1", "4ee7", <<VendorHint>>>>, Some("S1"), 1)
        tablet == UsbTransportEvidence(<<"05ac", "1227", <<>>>>, None, 2)
    IN  {UsbUnavailable, DeviceList(<<>>), DeviceList(<<Some(phone)>>),
         DeviceList(<<Some(tablet)>>), DeviceList(<<Some(phone), Some(tablet)>>)}

MonitorTools ==
    {[adb |-> adb, fastboot |-> fastboot, idevice_id |-> Absent] :
        adb \in {Absent, Runs(<<AdbHeader, <<"S1", "unauthorized">>>>)},
        fastboot \in {Absent, Runs(<<<<"T1", "fastboot">>>>)}}

\* main.rs:813-826: one call up to the end of the locked block; `return` when the
\* flag was already set
TestStarted(c) ==
    /\ caller_pc[c] = "idle"
    /\ calls < MaxCalls
    /\ calls' = calls + 1
    /\ LET r == test_and_set(device_monitor_started) IN
          /\ device_monitor_started' = r.started
          /\ caller_pc' = [caller_pc EXCEPT ![c] = IF r.should_start THEN "spawn" ELSE "idle"]
    /\ UNCHANGED <<monitor_threads, device_events, scanned>>
    /\ UNCHANGED <<scan_vars, device_state_vars, flash_vars>>

\* main.rs:828-830: std::thread::spawn, the thread starts with an empty `seen`
SpawnMonitor(c) ==
    /\ caller_pc[c] = "spawn"
    /\ monitor_threads' = Append(monitor_threads, [seen |-> {}])
    /\ caller_pc' = [caller_pc EXCEPT ![c] = "idle"]
    /\ UNCHANGED <<device_monitor_started, calls, device_events, scanned>>
    /\ UNCHANGED <<scan_vars, device_state_vars, flash_vars>>

\* main.rs:831-884: one pass of the loop of one monitor thread
MonitorCycle(t) ==
    /\ Len(device_events) < MaxCycles
    /\ \E host \in MonitorHosts, tools \in MonitorTools :
          LET current == current_uids(host, tools) IN
          /\ device_events' = Append(device_events, monitor_events(monitor_threads[t].seen, current))
          /\ scanned' = Append(scanned, current)
          /\ monitor_threads' = [monitor_threads EXCEPT ![t].seen = current]
    /\ UNCHANGED <<device_monitor_started, caller_pc, calls>>
    /\ UNCHANGED <<scan_vars, device_state_vars, flash_vars>>

NextMonitor ==
    \/ \E c \in 1..MaxCallers : TestStarted(c)
    \/ \E c \in 1..MaxCallers : SpawnMonitor(c)
    \/ \E t \in 1..Len(monitor_threads) : MonitorCycle(t)

SpecMonitor == Init /\ [][NextMonitor]_vars

\* the cycle before cycle i saw nothing when i is the first
PreviousSet(i) == IF i = 1 THEN {} ELSE scanned[i - 1]

RECURSIVE EventsOf(_, _)
\* the event types emitted for one uid over the first n cycles, in order
EventsOf(uid, n) ==
    IF n = 0 THEN <<>>
    ELSE EventsOf(uid, n - 1)
            \o (IF uid \in device_events[n].connected THEN <<"connected">> ELSE <<>>)
            \o (IF uid \in device_events[n].disconnected THEN <<"disconnected">> ELSE <<>>)

AllUids == UNION {scanned[i] : i \in 1..Len(scanned)}

\* C22: in each cycle the monitor emits "connected" for exactly the uids of the
\* current set that were not in the previous cycle's set and "disconnected" for
\* exactly those of the previous set that are not in the current one; a uid present
\* in two consecutive cycles produces no event; for any uid the events alternate
\* connected, disconnected, connected, ... starting with connected.
C22_MonitorDiffsConsecutiveCycles ==
    /\ Len(device_events) = Len(scanned)
    /\ \A i \in 1..Len(device_events) :
          /\ device_events[i].connected = {u \in scanned[i] : u \notin PreviousSet(i)}
          /\ device_events[i].disconnected = {u \in PreviousSet(i) : u \notin scanned[i]}
          /\ \A u \in scanned[i] \cap PreviousSet(i) :
                u \notin device_events[i].connected \cup device_events[i].disconnected
    /\ \A u \in AllUids :
          LET ev == EventsOf(u, Len(device_events)) IN
          \A k \in 1..Len(ev) : ev[k] = IF k % 2 = 1 THEN "connected" ELSE "disconnected"

\* three cycles: the phone comes, goes and comes back while the tablet stays from
\* the first cycle to the second without an event
C22_Witness ==
    /\ Len(device_events) = 3
    /\ EventsOf("S1", 3) = <<"connected", "disconnected", "connected">>
    /\ \E u \in scanned[1] \cap scanned[2] :
          /\ u # "S1"
          /\ EventsOf(u, 2) = <<"connected">>

\* C29: however many times start_device_monitor_once is called, concurrently too, at
\* most one monitor thread is ever spawned: the flag is tested and set under one
\* lock acquisition and every call after the first returns without spawning.
C29_MonitorStartedOnce ==
    /\ Len(monitor_threads) + Cardinality({c \in 1..MaxCallers : caller_pc[c] = "spawn"}) <= 1
    /\ calls >= 1 => device_monitor_started
    /\ Len(monitor_threads) + Cardinality({c \in 1..MaxCallers : caller_pc[c] = "spawn"})
          = IF calls >= 1 THEN 1 ELSE 0

\* every call allowed was made, one thread runs and no caller is about to spawn
C29_Witness ==
    /\ calls = MaxCalls
    /\ Len(monitor_threads) = 1
    /\ \A c \in 1..MaxCallers : caller_pc[c] = "idle"

-----------------------------------------------------------------------------
(* Flash jobs: flash_start, the worker thread of each job, and flash_cancel *)

\* no partition, one, or as many as a job may have, all of which pass (boot and a
\* padded dtbo in turn); and lists that end in one that flash_start refuses, one
\* for each check of its loop
PartitionLists ==
    LET boot == [name |-> Text(FALSE, <<"b", "o", "o", "t">>),
                 imagePath |-> Text(FALSE, <<"b", ".", "i", "m", "g">>), exists |-> TRUE]
        dtbo == [name |-> Text(TRUE, <<"d", "t", "b", "o">>),
                 imagePath |-> Text(FALSE, <<"d", ".", "i", "m", "g">>), exists |-> TRUE]
        refused == {[boot EXCEPT !.name = Text(TRUE, <<>>)],
                    [boot EXCEPT !.name = Text(FALSE, <<"a", "/", "b">>)],
                    [boot EXCEPT !.imagePath = Text(TRUE, <<>>)],
                    [boot EXCEPT !.exists = FALSE]}
        good(k) == [i \in 1..k |-> IF i % 2 = 1 THEN boot ELSE dtbo]
    IN  {good(k) : k \in {0, 1, MaxPartitions}}
            \cup {Append(good(k), p) : k \in {0, MaxPartitions - 1}, p \in refused}

FlashJobConfigs ==
    {[deviceSerial |-> serial, flashMethod |-> method, partitions |-> partitions,
      autoReboot |-> reboot, wipeUserData |-> wipe] :
        serial \in {Text(FALSE, <<"S", "1">>), Text(TRUE, <<>>)},
        method \in {"fastboot", "odin"},
        partitions \in PartitionLists,
        reboot \in BOOLEAN, wipe \in BOOLEAN}

\* a request: the config and whether `fastboot --version` succeeds (main.rs:254-262)
RefusedRequests ==
    {request \in FlashJobConfigs \X BOOLEAN :
        is_some(flash_start_error(request[1], request[2]))}

AcceptedRequests == (FlashJobConfigs \X BOOLEAN) \ RefusedRequests

\* main.rs:382-425: flash_start returns Err and leaves the state as it is
FlashStartRefused ==
    /\ RefusedRequests # {}
    /\ UNCHANGED vars

\* main.rs:382-472, 717: flash_start inserts the job and spawns its worker
FlashStart ==
    /\ job_counter < MaxJobs
    /\ \E request \in AcceptedRequests :
          LET id == job_id(now_ms, job_counter + 1) IN
                /\ flash_jobs' = (id :> FlashJobRuntime(request[1])) @@ flash_jobs
                /\ workers' = (id :> [pc |-> "prepare", completed_steps |-> 0]) @@ workers
                /\ commands' = (id :> <<>>) @@ commands
    /\ job_counter' = job_counter + 1
    /\ UNCHANGED <<flash_history, cancel_returned>>
    /\ UNCHANGED <<scan_vars, device_state_vars, monitor_vars>>

\* the ids flash_start can give, and one more that no job has
JobIds == {job_id(t * 1000, n) : t \in 0..MaxClock, n \in 1..(MaxJobs + 1)}

\* main.rs:721-728 with a job id that is in the map
FlashCancel(jobId) ==
    /\ jobId \in DOMAIN flash_jobs
    /\ flash_jobs' = flash_cancel(flash_jobs, jobId).jobs
    /\ cancel_returned' = cancel_returned \cup {jobId}
    /\ UNCHANGED <<job_counter, flash_history, workers, commands>>
    /\ UNCHANGED <<scan_vars, device_state_vars, monitor_vars>>

\* main.rs:721-723: Err("Unknown jobId") for an id that is not in the map
FlashCancelUnknown ==
    /\ {jobId \in JobIds : ~flash_cancel(flash_jobs, jobId).ok} # {}
    /\ UNCHANGED vars

\* the command the worker of job id is at: the one after those it completed
current_command(id) == plan(flash_jobs[id].config)[workers[id].completed_steps + 1]

worker_goes(id, pc_, completed) ==
    workers' = [workers EXCEPT ![id] = [pc |-> pc_, completed_steps |-> completed]]

\* main.rs:538: set_job_status("running", "Preparing")
Prepare(id) ==
    /\ id \in DOMAIN workers
    /\ workers[id].pc = "prepare"
    /\ flash_jobs' = set_job_status(flash_jobs, id, "running", "Preparing")
    /\ worker_goes(id, "check", 0)
    /\ UNCHANGED <<job_counter, flash_history, commands, cancel_returned>>
    /\ UNCHANGED <<scan_vars, device_state_vars, monitor_vars>>

\* main.rs:549, 595, 645: if cancel_requested()
CheckCancel(id) ==
    /\ id \in DOMAIN workers
    /\ workers[id].pc = "check"
    /\ worker_goes(id, IF cancel_requested(flash_jobs, id) THEN "set_cancelled" ELSE "announce",
                   workers[id].completed_steps)
    /\ UNCHANGED <<flash_jobs, job_counter, flash_history, commands, cancel_returned>>
    /\ UNCHANGED <<scan_vars, device_state_vars, monitor_vars>>

\* main.rs:550-551, 596-597, 646-647: set_job_status("cancelled", "Cancelled"); return
SetCancelled(id) ==
    /\ id \in DOMAIN workers
    /\ workers[id].pc = "set_cancelled"
    /\ flash_jobs' = set_job_status(flash_jobs, id, "cancelled", "Cancelled")
    /\ worker_goes(id, "done", workers[id].completed_steps)
    /\ UNCHANGED <<job_counter, flash_history, commands, cancel_returned>>
    /\ UNCHANGED <<scan_vars, device_state_vars, monitor_vars>>

\* main.rs:554, 600, 650: set_job_status("running", <the step>)
Announce(id) ==
    /\ id \in DOMAIN workers
    /\ workers[id].pc = "announce"
    /\ flash_jobs' = set_job_status(flash_jobs, id, "running", current_command(id).step)
    /\ worker_goes(id, "command", workers[id].completed_steps)
    /\ UNCHANGED <<job_counter, flash_history, commands, cancel_returned>>
    /\ UNCHANGED <<scan_vars, device_state_vars, monitor_vars>>

\* main.rs:556-587, 603-637, 652-662: the fastboot command is started and waited
\* for; a wipe or a flash that fails ends the job, the result of reboot is ignored
RunCommand(id) ==
    /\ id \in DOMAIN workers
    /\ workers[id].pc = "command"
    /\ commands' = [commands EXCEPT ![id] =
                      Append(@, [kind |-> current_command(id).kind,
                                 cancel_returned |-> id \in cancel_returned])]
    /\ \E success \in BOOLEAN :
          worker_goes(id,
                      IF success \/ current_command(id).kind = "reboot"
                      THEN "complete_step" ELSE "set_failed",
                      workers[id].completed_steps)
    /\ UNCHANGED <<flash_jobs, job_counter, flash_history, cancel_returned>>
    /\ UNCHANGED <<scan_vars, device_state_vars, monitor_vars>>

\* main.rs:568-575, 579-586, 617-624, 628-635: set_job_status("failed", ...); return
SetFailed(id) ==
    /\ id \in DOMAIN workers
    /\ workers[id].pc = "set_failed"
    /\ flash_jobs' = set_job_status(flash_jobs, id, "failed",
                        failed_step(current_command(id), flash_jobs[id].config, workers[id].completed_steps + 1))
    /\ worker_goes(id, "done", workers[id].completed_steps)
    /\ UNCHANGED <<job_counter, flash_history, commands, cancel_returned>>
    /\ UNCHANGED <<scan_vars, device_state_vars, monitor_vars>>

\* main.rs:589-590, 639-640, 663-664: completed_steps += 1; complete_step(...)
CompleteStep(id) ==
    /\ id \in DOMAIN workers
    /\ workers[id].pc = "complete_step"
    /\ LET completed == workers[id].completed_steps + 1 IN
          /\ flash_jobs' = complete_step(flash_jobs, id, completed, flash_jobs[id].total_steps)
          /\ worker_goes(id,
                         IF completed < Len(plan(flash_jobs[id].config))
                         THEN "check" ELSE "set_completed",
                         completed)
    /\ UNCHANGED <<job_counter, flash_history, commands, cancel_returned>>
    /\ UNCHANGED <<scan_vars, device_state_vars, monitor_vars>>

\* main.rs:667: set_job_status("completed", "Completed")
SetCompleted(id) ==
    /\ id \in DOMAIN workers
    /\ workers[id].pc = "set_completed"
    /\ flash_jobs' = set_job_status(flash_jobs, id, "completed", "Completed")
    /\ worker_goes(id, "history", workers[id].completed_steps)
    /\ UNCHANGED <<job_counter, flash_history, commands, cancel_returned>>
    /\ UNCHANGED <<scan_vars, device_state_vars, monitor_vars>>

\* main.rs:687-714: the history entry, newest first, at most HistoryCap kept
SaveHistory(id) ==
    /\ id \in DOMAIN workers
    /\ workers[id].pc = "history"
    /\ LET entry == [jobId |-> id, flashMethod |-> flash_jobs[id].config.flashMethod,
                     status |-> "completed"]
           hist == <<entry>> \o flash_history
       IN  flash_history' = SubSeq(hist, 1, Min(Len(hist), HistoryCap))
    /\ worker_goes(id, "done", workers[id].completed_steps)
    /\ UNCHANGED <<flash_jobs, job_counter, commands, cancel_returned>>
    /\ UNCHANGED <<scan_vars, device_state_vars, monitor_vars>>

NextFlash ==
    \/ FlashStartRefused
    \/ FlashStart
    \/ \E jobId \in JobIds : FlashCancel(jobId)
    \/ FlashCancelUnknown
    \/ \E id \in JobIds : Prepare(id)
    \/ \E id \in JobIds : CheckCancel(id)
    \/ \E id \in JobIds : SetCancelled(id)
    \/ \E id \in JobIds : Announce(id)
    \/ \E id \in JobIds : RunCommand(id)
    \/ \E id \in JobIds : SetFailed(id)
    \/ \E id \in JobIds : CompleteStep(id)
    \/ \E id \in JobIds : SetCompleted(id)
    \/ \E id \in JobIds : SaveHistory(id)

SpecFlash == Init /\ [][NextFlash]_vars

\* C24: once a flash job's status is completed, failed or cancelled it never changes
\* again: no step of the job's worker thread and no flash_cancel call moves a job
\* out of a terminal status or from one terminal status to another.
C24_TerminalStatusFinal ==
    [][\A id \in DOMAIN flash_jobs :
          flash_jobs[id].status \in TerminalStatus
              => flash_jobs'[id].status = flash_jobs[id].status]_vars

\* C25: after flash_cancel has returned Ok for a job, the job's worker thread starts
\* no further fastboot command (wipe, partition flash or reboot) for it.
C25_NoCommandAfterCancel ==
    \A id \in DOMAIN commands :
        \A i \in 1..Len(commands[id]) : ~commands[id][i].cancel_returned

C30_ProgressArithmetic ==
    \A id \in DOMAIN flash_jobs :
        LET job == flash_jobs[id] IN
        /\ job.total_steps = Len(job.config.partitions)
                                + (IF job.config.wipeUserData THEN 1 ELSE 0)
                                + (IF job.config.autoReboot THEN 1 ELSE 0)
        /\ job.completed_steps <= job.total_steps
        /\ job.progress * job.total_steps <= 100 * job.completed_steps
        /\ 100 * job.completed_steps < (job.progress + 1) * job.total_steps
        /\ job.progress <= 100
        /\ (job.status = "completed" \/ workers[id].pc \in {"set_completed", "history"})
              => job.completed_steps = job.total_steps /\ job.progress = 100

C30_NeverDecrease ==
    \A id \in DOMAIN flash_jobs :
        /\ flash_jobs'[id].completed_steps >= flash_jobs[id].completed_steps
        /\ flash_jobs'[id].progress >= flash_jobs[id].progress

\* C30: for every flash job, in every reachable state completed_steps <= total_steps
\* and progress = floor(100 * completed_steps / total_steps) <= 100; both values never
\* decrease; the worker sets status completed only after completed_steps has reached
\* total_steps (progress 100); total_steps = number of partitions + 1 if wipeUserData
\* + 1 if autoReboot.
C30_ProgressBoundedMonotoneComplete == []C30_ProgressArithmetic /\ [][C30_NeverDecrease]_vars

\* a job with wipe, two partitions or more and reboot that ran to its end
C30_Witness ==
    \E id \in DOMAIN flash_jobs :
        /\ flash_jobs[id].config.wipeUserData
        /\ flash_jobs[id].config.autoReboot
        /\ Len(flash_jobs[id].config.partitions) >= 2
        /\ flash_jobs[id].status = "completed"
        /\ flash_jobs[id].completed_steps = Len(flash_jobs[id].config.partitions) + 2
        /\ flash_jobs[id].progress = 100
        /\ workers[id].pc = "done"
        /\ Len(flash_history) = 1

====
